---------------------------- MODULE Spec2Model ----------------------------
(***************************************************************************)
(* Loop engine of ralph-ollama-standalone (lib/ralph_loop_engine.py):      *)
(* the worker thread running _run_loop / _execute_phase, the control       *)
(* operations start / pause / resume / stop / set_mode / get_status that   *)
(* a host thread calls, the error classification used by the retry         *)
(* wrapper, and the path handling of the IMPLEMENT phase.                  *)
(*                                                                         *)
(* Threads interleave at the granularity of one shared read, one           *)
(* `with self.lock` block or one blocking call per step.  The host issues  *)
(* control operations one after the other (cpc is the position of the      *)
(* host thread inside start() or stop()).                                  *)
(***************************************************************************)
EXTENDS Integers, Sequences, FiniteSets, TLC

\* ------------------------------------------------------------------ bounds
MaxWorkers == 2        \* worker threads that may be alive at the same time
MaxTasks   == 1        \* task lines up to which the task list is filled
MaxQueue   == 2        \* task lines of a task list given with complete lines
MaxPathLen == 5        \* characters of a code block's specifier

\* ------------------------------------------------------- program constants
retry_delay == 2
max_retries == 2

Workers == 1..MaxWorkers

\* LoopMode
NON_STOP       == "non_stop"
PHASE_BY_PHASE == "phase_by_phase"
LoopMode       == {NON_STOP, PHASE_BY_PHASE}

\* Phase
STUDY     == "study"
IMPLEMENT == "implement"
TEST      == "test"
UPDATE    == "update"
IDLE      == "idle"
COMPLETE  == "complete"
ERROR     == "error"
Phase     == {STUDY, IMPLEMENT, TEST, UPDATE, IDLE, COMPLETE, ERROR}

\* phases = [Phase.STUDY, Phase.IMPLEMENT, Phase.TEST, Phase.UPDATE]
phases == <<STUDY, IMPLEMENT, TEST, UPDATE>>

\* ---------------------------------------------------------- error messages
\* Error texts are character sequences, so that lower() and the `in`
\* substring test of _is_critical_error are computed as the code does.
MsgModel      == <<"M","o","d","e","l"," ","n","o","t"," ","f","o","u","n","d">>
MsgTimeout    == <<"R","e","q","u","e","s","t"," ","T","i","m","e","o","u","t">>
MsgPermission == <<"P","e","r","m","i","s","s","i","o","n"," ","d","e","n","i","e","d">>
MsgNoSpace    == <<"N","o"," ","s","p","a","c","e"," ","l","e","f","t">>
MsgType       == <<"e","x","p","e","c","t","e","d"," ","s","t","r">>

\* the error texts a phase attempt can end with, by number
Errors == <<MsgModel, MsgTimeout, MsgPermission, MsgNoSpace, MsgType>>
E_MODEL      == 1
E_TIMEOUT    == 2
E_PERMISSION == 3
E_NOSPACE    == 4
E_TYPE       == 5

UpperCase == <<"A","B","C","D","E","F","G","H","I","J","K","L","M",
               "N","O","P","Q","R","S","T","U","V","W","X","Y","Z">>
LowerCase == <<"a","b","c","d","e","f","g","h","i","j","k","l","m",
               "n","o","p","q","r","s","t","u","v","w","x","y","z">>

\* a lower() that leaves the text as it is
lower_unchanged(s) == s

\* str.lower() on one character
lower_char(c) ==
    IF \E i \in 1..26 : UpperCase[i] = c
    THEN LowerCase[CHOOSE i \in 1..26 : UpperCase[i] = c]
    ELSE c

\* str.lower()
lower(s) == [i \in 1..Len(s) |-> lower_char(s[i])]

\* `pattern in text`
contains(text, pattern) ==
    \E i \in 1..(Len(text) - Len(pattern) + 1) :
        SubSeq(text, i, i + Len(pattern) - 1) = pattern

critical_patterns ==
    { <<"p","e","r","m","i","s","s","i","o","n"," ","d","e","n","i","e","d">>,
      <<"d","i","s","k"," ","f","u","l","l">>,
      <<"o","u","t"," ","o","f"," ","m","e","m","o","r","y">>,
      <<"c","o","n","n","e","c","t","i","o","n"," ","r","e","f","u","s","e","d">>,
      <<"t","i","m","e","o","u","t">>,
      <<"a","u","t","h","e","n","t","i","c","a","t","i","o","n"," ","f","a","i","l","e","d">>,
      <<"i","n","v","a","l","i","d"," ","a","p","i"," ","k","e","y">> }

\* RalphLoopEngine._is_critical_error(error, phase)
is_critical_error(error, phase) ==
    IF \E pattern \in critical_patterns : contains(lower(error), pattern)
    THEN TRUE
    ELSE IF phase = UPDATE THEN FALSE ELSE FALSE

\* _is_critical_error on each numbered error text, for each phase
critical_table ==
    [e \in 1..Len(Errors), phase \in Phase |-> is_critical_error(Errors[e], phase)]

critical(e, phase) == critical_table[e, phase]

VARIABLES
    mode,            \* self.mode
    current_phase,   \* self.current_phase
    current_task,    \* self.current_task: a task number, 0 for None
    is_running,      \* self.is_running
    is_paused,       \* self.is_paused
    should_stop,     \* self.should_stop
    continue_on_non_critical,  \* self.continue_on_non_critical
    thread,          \* self.thread: the worker last created, 0 for None
    plan,            \* @fix_plan.md: plan[i] iff task line i is `- [ ]`
    wpc,             \* position of each worker thread in _run_loop
    widx,            \* the worker's place in `for phase in phases` (5: past the end)
    wtask,           \* the task argument of the worker's _execute_phase call
    wretry,          \* the retry_count argument of its _execute_phase call
    wres,            \* the result of the attempt of _execute_phase just ended
    wwarn,           \* history: a phase of the worker's current cycle ended
                     \* as success-with-warning
    wrecs,           \* history: how many records the worker's current cycle
                     \* has appended to self.phase_history
    wlast,           \* history: the record appended by the _execute_phase
                     \* call just ended
    wsleep,          \* history: the seconds the worker's last attempt slept
                     \* before its retry
    wgen,            \* the worker's last _generate_tasks_from_description call
    wclean,          \* history: no attempt of the worker's current cycle failed
    recorded,        \* self.phase_history holds a record (the list is only
                     \* ever appended to)
    cpc,             \* position of the host thread in start() / stop()
    carg,            \* the mode argument of the start() in progress
    scene,           \* history: what the host last did to a waiting worker
    specifier,       \* the specifier line of a code block of the response
    fpc,             \* position of the IMPLEMENT phase on that code block
    file_info_path,  \* file_info['path'] as _parse_code_blocks returned it
    wrote,           \* write_text was performed for the block
    write_target,    \* where it was performed: directory names from "/" down
    doc_exists,      \* @fix_plan.md exists
    doc,             \* its content, as the lines between its newlines
    tpc,             \* position of a caller of the task-list functions
    targ,            \* the argument of the call made
    tret,            \* the boolean it returned
    tread,           \* the tasks read_tasks returned
    doc0,            \* history: the content before the call
    ktext,           \* the error text of a classification call
    kkeyword,        \* history: the text was built around a critical keyword
    kphase,          \* the phase argument of the call
    kretry,          \* the retry_count argument of the call
    disk,            \* the project directory: st_mtime of each path, 0 if
                     \* there is no such file
    writes,          \* how many writes the directory has seen
    initial_snapshot, \* FileTracker.initial_snapshot
    current_snapshot, \* FileTracker.current_snapshot
    tracked_files,   \* FileTracker.tracked_files: the recorded mtime of each
                     \* path, 0 if the path has no entry
    snapshot_cache,  \* FileTracker._snapshot_cache
    cache_age,       \* time since _snapshot_cache_time, up to cache_ttl
    check_age,       \* time since _last_check_time, up to check_interval
    last_changes,    \* FileTracker._last_changes
    tracking,        \* start_tracking() has been called
    life,            \* history: what has happened to each path since
                     \* start_tracking()
    status_callback, \* self.status_callback is set
    status_log,      \* how many entries self.status_log holds
    lock,            \* the thread inside a `with self.lock:` block, or "free"
    epc,             \* where each thread is in its operation and in
                     \* _log_status
    eraised,         \* history: the callback raised in the thread's last
                     \* _emit_status
    elen,            \* history: the length of status_log when the thread's
                     \* last _log_status was called
    response,        \* the fenced blocks of the response being parsed
    files,           \* `files` of _parse_code_blocks
    bnext,           \* the block the loop of _parse_code_blocks takes next;
                     \* 0 once it has returned
    phase_history,   \* self.phase_history as _calculate_task_progress reads
                     \* it: the phase and the success flag of each entry
    gphase,          \* self.current_phase as _calculate_task_progress reads it
    gidx,            \* the phase of the for loop, as an index of phases
    gpc,             \* where the worker is: between tasks, entering a phase,
                     \* in a phase
    task_progress,   \* the task progress last computed, in 1/400
    kpc,             \* position of the caller of the classification
    kres             \* what is_critical_error and should_retry returned

vars == <<mode, current_phase, current_task, is_running, is_paused,
          should_stop, continue_on_non_critical, thread, plan,
          wpc, widx, wtask, wretry, wres, wwarn, wrecs, wlast, wclean,
          wsleep, recorded, wgen, cpc, carg, scene, specifier, fpc, file_info_path, wrote, write_target,
          doc_exists, doc, tpc, targ, tret, tread, doc0,
          ktext, kkeyword, kphase, kretry, kpc, kres,
          disk, writes, initial_snapshot, current_snapshot, tracked_files,
          snapshot_cache, cache_age, check_age, last_changes, tracking, life,
          status_callback, status_log, lock, epc, eraised, elen,
          response, files, bnext,
          phase_history, gphase, gidx, gpc, task_progress>>

control == <<mode, current_phase, is_running, is_paused, should_stop>>
host    == <<cpc, carg, thread>>
wlocal  == <<wpc, widx, wtask, wretry, wres, wwarn>>
document == <<doc_exists, doc, tpc, targ, tret, tread, doc0>>
classify == <<ktext, kkeyword, kphase, kretry, kpc, kres>>
tracker  == <<disk, writes, initial_snapshot, current_snapshot, tracked_files,
              snapshot_cache, cache_age, check_age, last_changes, tracking, life>>
emission == <<status_callback, status_log, lock, epc, eraised, elen>>
parsing  == <<response, files, bnext>>
estimate == <<phase_history, gphase, gidx, gpc, task_progress>>
others   == <<classify, tracker, emission, parsing, estimate>>
settings == <<continue_on_non_critical, specifier, fpc, file_info_path, wrote,
              write_target, document, others>>
history == <<wrecs, wlast, wclean, wsleep, recorded>>
generated == <<wgen>>
config  == <<settings, history, generated>>

NoResult == [success |-> FALSE, warning |-> FALSE, error |-> 0]

\* no call of _generate_tasks_from_description was made
NoGeneration == [case |-> "none", generate_called |-> FALSE, tasks |-> 0]

\* no phase_entry: the call has appended nothing (yet)
NoEntry == [phase |-> "none", success |-> FALSE, warning |-> FALSE, error |-> 0]

\* a worker thread that has been created and has not returned from _run_loop
Alive(w) == wpc[w] \notin {"none", "dead"}

\* `self.thread and self.thread.is_alive()`
thread_is_alive == IF thread = 0 THEN FALSE ELSE Alive(thread)

\* a worker inside _wait_for_resume with the loop condition true
Blocked(w) == wpc[w] \in {"prewait", "pwait"} /\ is_paused /\ ~should_stop

\* a worker inside a call that can outlast stop()'s join(timeout=5): the
\* generation call of a phase or of the task generation, or the retry sleep
\* that precedes the next generation call.  The pause-wait polls every 0.5 s
\* and nothing between it and the end of _run_loop blocks.
InBlockingCall(w) == wpc[w] \in {"gen", "run", "retry"}

\* a reader that lists the incomplete tasks bottom to top
read_fix_plan_bottom_up ==
    LET up == SelectSeq([i \in 1..Len(plan) |-> i], LAMBDA i : plan[i])
    IN  [k \in 1..Len(up) |-> up[Len(up) + 1 - k]]

\* RalphLoopEngine._read_fix_plan: the incomplete tasks, top to bottom
read_fix_plan == SelectSeq([i \in 1..Len(plan) |-> i], LAMBDA i : plan[i])

\* RalphLoopEngine.__init__
InitEngine ==
    /\ mode = PHASE_BY_PHASE
    /\ current_phase = IDLE
    /\ current_task = 0
    /\ is_running = FALSE
    /\ is_paused = FALSE
    /\ should_stop = FALSE
    /\ thread = 0
    /\ wpc = [w \in Workers |-> "none"]
    /\ widx = [w \in Workers |-> 1]
    /\ wtask = [w \in Workers |-> 0]
    /\ wretry = [w \in Workers |-> 0]
    /\ wres = [w \in Workers |-> NoResult]
    /\ wwarn = [w \in Workers |-> FALSE]
    /\ wrecs = [w \in Workers |-> 0]
    /\ wlast = [w \in Workers |-> NoEntry]
    /\ wclean = [w \in Workers |-> TRUE]
    /\ wsleep = [w \in Workers |-> 0]
    /\ recorded = FALSE
    /\ wgen = [w \in Workers |-> NoGeneration]
    /\ cpc = "idle"
    /\ carg = PHASE_BY_PHASE
    /\ scene = "none"

\* no code block is being handled
NoBlock ==
    /\ specifier = <<>>
    /\ fpc = "none"
    /\ file_info_path = <<>>
    /\ wrote = FALSE
    /\ write_target = <<>>

\* no task-list function is being called on its own
NoDocument ==
    /\ doc_exists = FALSE
    /\ doc = <<>>
    /\ tpc = "none"
    /\ targ = <<>>
    /\ tret = FALSE
    /\ tread = <<>>
    /\ doc0 = <<>>

\* no classification call is being made on its own
NoClassify ==
    /\ ktext = <<>>
    /\ kkeyword = FALSE
    /\ kphase = IDLE
    /\ kretry = 0
    /\ kpc = "none"
    /\ kres = [critical |-> FALSE, retry |-> FALSE]

\* the relative paths that can exist under the project root
Paths == {"a", "b"}

\* get_changes() has not returned anything yet
NoChanges == [valid |-> FALSE, created |-> {}, modified |-> {}, deleted |-> {}]

\* the snapshot of an empty directory
NoSnapshot == [p \in Paths |-> 0]

\* self._snapshot_cache = None
NoCache == [valid |-> FALSE, files |-> NoSnapshot]

\* no file tracker is in use
NoTracker ==
    /\ disk = NoSnapshot
    /\ writes = 0
    /\ initial_snapshot = {}
    /\ current_snapshot = {}
    /\ tracked_files = NoSnapshot
    /\ snapshot_cache = NoCache
    /\ cache_age = 0
    /\ check_age = 0
    /\ last_changes = NoChanges
    /\ tracking = FALSE
    /\ life = [p \in Paths |-> "none"]

\* the worker thread and a thread of the caller (the UI, the CLI)
Threads == {"worker", "host"}

\* status entries to which status_log is filled
MaxLog == 3

\* no status event is being logged
NoEmission ==
    /\ status_callback = FALSE
    /\ status_log = 0
    /\ lock = "free"
    /\ epc = [t \in Threads |-> "idle"]
    /\ eraised = [t \in Threads |-> FALSE]
    /\ elen = [t \in Threads |-> 0]

\* no response is being parsed
NoResponse ==
    /\ response = <<>>
    /\ files = <<>>
    /\ bnext = 0

\* no task progress has been computed
NoEstimate ==
    /\ phase_history = <<>>
    /\ gphase = "idle"
    /\ gidx = 0
    /\ gpc = "task"
    /\ task_progress = 0

\* none of the functions checked on their own is being called
NoOtherCalls ==
    /\ NoClassify
    /\ NoTracker
    /\ NoEmission
    /\ NoResponse
    /\ NoEstimate

\* the engine after construction, with either setting of
\* continue_on_non_critical and a task list of up to MaxTasks task lines
Init ==
    /\ InitEngine
    /\ NoBlock
    /\ NoDocument
    /\ NoOtherCalls
    /\ continue_on_non_critical \in BOOLEAN
    /\ plan \in {[i \in 1..n |-> TRUE] : n \in 0..MaxTasks}

\* ------------------------------------------------------------ worker thread
\* what one attempt of a phase function can end with: <<"ok", 0>>, a returned
\* failure <<"ret", e>> (_phase_study/_phase_implement/_phase_test catch the
\* exception of call_llm) or a raised exception <<"exc", e>> (_phase_update
\* reads and writes @fix_plan.md outside any try; re.escape(None) raises)
PhaseOutcomes(phase, task) ==
    IF phase = UPDATE
    THEN IF task = 0
         THEN {<<"exc", E_TYPE>>}
         ELSE {<<"ok", 0>>, <<"exc", E_PERMISSION>>, <<"exc", E_NOSPACE>>}
    ELSE {<<"ok", 0>>, <<"ret", E_MODEL>>, <<"ret", E_TIMEOUT>>}

\* a retry wrapper that compares retry_count with <= instead of <
execute_phase_decide_off_by_one(kind, e, phase, r, cont) ==
    IF r <= max_retries /\ kind # "ok" /\ ~critical(e, phase)
    THEN [retry |-> TRUE, success |-> FALSE, warning |-> FALSE, error |-> e]
    ELSE [retry |-> FALSE, success |-> (kind = "ok" \/ (cont /\ ~critical(e, phase))),
          warning |-> (kind # "ok" /\ cont /\ ~critical(e, phase)), error |-> e]

\* RalphLoopEngine._execute_phase after the phase function has ended with
\* outcome <<kind, e>> at retry_count r: retry, or the result it returns
execute_phase_decide(kind, e, phase, r, cont) ==
    IF kind \in {"ok", "ret"}
    THEN IF kind = "ret" /\ r < max_retries
         THEN IF critical(e, phase)
              THEN [retry |-> FALSE, success |-> FALSE, warning |-> FALSE, error |-> e]
              ELSE [retry |-> TRUE, success |-> FALSE, warning |-> FALSE, error |-> e]
         ELSE IF kind = "ret" /\ cont /\ ~critical(e, phase)
              THEN [retry |-> FALSE, success |-> TRUE, warning |-> TRUE, error |-> e]
              ELSE [retry |-> FALSE, success |-> (kind = "ok"), warning |-> FALSE, error |-> e]
    ELSE IF r < max_retries /\ ~critical(e, phase)
         THEN [retry |-> TRUE, success |-> FALSE, warning |-> FALSE, error |-> e]
         ELSE [retry |-> FALSE, success |-> (cont /\ ~critical(e, phase)),
               warning |-> (cont /\ ~critical(e, phase)), error |-> e]

\* a wrapper that records failures only
history_append_failures_only(kind, e, phase, r, cont) ==
    IF kind = "ok" \/ execute_phase_decide(kind, e, phase, r, cont).retry
    THEN <<>>
    ELSE <<[phase |-> phase, success |-> FALSE, warning |-> FALSE, error |-> e]>>

\* a wrapper that appends its phase_entry before every retry as well
history_append_each_attempt(kind, e, phase, r, cont) ==
    <<[phase |-> phase, success |-> (kind = "ok"), warning |-> FALSE, error |-> e]>>

\* _execute_phase: what the call appends to self.phase_history when the
\* phase function has ended with outcome <<kind, e>> at retry_count r. A
\* retry returns the recursive call's value and appends nothing. On a
\* returned result the entry takes result['success'] and result['error']
\* before the result is turned into success-with-warning, and is not changed
\* afterwards; on an exception the entry itself is turned into
\* success-with-warning
history_append(kind, e, phase, r, cont) ==
    IF execute_phase_decide(kind, e, phase, r, cont).retry
    THEN <<>>
    ELSE IF kind \in {"ok", "ret"}
    THEN <<[phase |-> phase, success |-> (kind = "ok"), warning |-> FALSE,
            error |-> e]>>
    ELSE <<[phase |-> phase, success |-> (cont /\ ~critical(e, phase)),
            warning |-> (cont /\ ~critical(e, phase)), error |-> e]>>

\* _execute_phase: time.sleep(self.retry_delay) before the recursive call
\* made at retry_count
retry_sleep(retry_count) == retry_delay

\* a loop that takes every result carrying an error for a failure
run_loop_result_strict(r, phase, cont) ==
    IF r.error # 0
    THEN IF critical(r.error, phase) THEN "error" ELSE "break"
    ELSE "go"

\* _run_loop, on the result r of _execute_phase(phase): "error" when it sets
\* phase=error and is_running=False and breaks, "break" when it breaks
\* because continue_on_non_critical is off, "go" when it goes on to the pause
\* step
run_loop_result(r, phase, cont) ==
    IF ~r.success
    THEN IF ~r.warning /\ critical(r.error, phase) THEN "error"
         ELSE IF ~cont /\ ~r.warning THEN "break"
         ELSE "go"
    ELSE "go"

\* RalphLoopEngine._phase_update: re.sub of the first `- [ ] task` line
mark_complete(task) ==
    IF task \in 1..Len(plan) THEN [plan EXCEPT ![task] = FALSE] ELSE plan

\* a loop that runs the same phase again after the wait
NextIteration_repeat(w) ==
    /\ widx' = widx
    /\ wpc' = [wpc EXCEPT ![w] = "for"]

\* the end of one iteration of `for phase in phases`
NextIteration(w) ==
    /\ widx' = [widx EXCEPT ![w] = widx[w] + 1]
    /\ wpc' = [wpc EXCEPT ![w] = IF widx[w] = Len(phases) THEN "next" ELSE "for"]

\* _run_loop: `while not self.should_stop`, tasks = self._read_fix_plan(),
\* self.current_task = tasks[0]
run_loop_while(w) ==
    /\ wpc[w] = "while"
    /\ IF should_stop
       THEN /\ wpc' = [wpc EXCEPT ![w] = "dead"]
            /\ UNCHANGED current_task
       ELSE IF read_fix_plan # <<>>
       THEN /\ current_task' = read_fix_plan[1]
            /\ wpc' = [wpc EXCEPT ![w] = "for"]
       ELSE /\ wpc' = [wpc EXCEPT ![w] = "gen"]
            /\ UNCHANGED current_task
    /\ UNCHANGED <<control, host, config, plan, widx, wtask, wretry, wres, wwarn, scene>>

\* a generation step that asks the collaborator without check_available
generate_tasks_unchecked(case, k) ==
    IF case = "no_description"
    THEN [generate_called |-> FALSE, tasks |-> 0]
    ELSE IF case \in {"raises", "unparsable"}
    THEN [generate_called |-> TRUE, tasks |-> 0]
    ELSE [generate_called |-> TRUE, tasks |-> k]

\* the ways a call of _generate_tasks_from_description can go: there is no
\* project description (and none in README.md), adapter.check_available()
\* is false, adapter.generate raises, its response has no line of more than
\* ten characters, or it has some
GenerationCases == {"no_description", "unavailable", "raises", "unparsable", "tasks"}

\* _generate_tasks_from_description: whether adapter.generate was called and
\* the number of tasks returned, k being the task lines of the response
generate_tasks_from_description(case, k) ==
    IF case = "no_description"
    THEN [generate_called |-> FALSE, tasks |-> 0]
    ELSE IF case = "unavailable"
    THEN [generate_called |-> FALSE, tasks |-> 0]
    ELSE IF case = "raises"
    THEN [generate_called |-> TRUE, tasks |-> 0]
    ELSE IF case = "unparsable"
    THEN [generate_called |-> TRUE, tasks |-> 0]
    ELSE [generate_called |-> TRUE, tasks |-> k]

\* task lines @fix_plan.md can still take
room == IF Len(plan) < MaxTasks THEN MaxTasks - Len(plan) ELSE 0

\* _run_loop: no task was read; generated_tasks =
\* self._generate_tasks_from_description()
run_loop_generate(w) ==
    /\ wpc[w] = "gen"
    /\ \E case \in GenerationCases :
         \E k \in IF case = "tasks" THEN 1..room ELSE {0} :
           LET g == generate_tasks_from_description(case, k)
           IN  wgen' = [wgen EXCEPT ![w] = [case |-> case,
                                            generate_called |-> g.generate_called,
                                            tasks |-> g.tasks]]
    /\ wpc' = [wpc EXCEPT ![w] = "genret"]
    /\ UNCHANGED <<control, host, settings, history, plan, current_task, widx, wtask, wretry,
                   wres, wwarn, scene>>

\* _run_loop: `if generated_tasks: if self._add_tasks_to_fix_plan(...): tasks =
\* self._read_fix_plan()`, then `if not tasks:` current_phase = COMPLETE,
\* is_running = False, break; else self.current_task = tasks[0]
run_loop_generated(w) ==
    /\ wpc[w] = "genret"
    /\ IF wgen[w].tasks = 0
       THEN /\ current_phase' = COMPLETE
            /\ is_running' = FALSE
            /\ wpc' = [wpc EXCEPT ![w] = "dead"]
            /\ UNCHANGED <<plan, current_task, wgen>>
       ELSE /\ plan' = plan \o [i \in 1..wgen[w].tasks |-> TRUE]
            /\ current_task' = Len(plan) + 1
            /\ wpc' = [wpc EXCEPT ![w] = "for"]
            /\ wgen' = [wgen EXCEPT ![w] = NoGeneration]
            /\ UNCHANGED <<current_phase, is_running>>
    /\ UNCHANGED <<mode, is_paused, should_stop, host, settings, history, widx, wtask, wretry,
                   wres, wwarn, scene>>

\* a for body without `if self.should_stop: break` at its head
run_loop_for_nostop(w) ==
    /\ wpc[w] = "for"
    /\ wpc' = [wpc EXCEPT ![w] =
                 IF mode = PHASE_BY_PHASE /\ phases[widx[w]] # STUDY
                 THEN "prewait" ELSE "exec"]
    /\ UNCHANGED <<control, host, config, plan, current_task, widx, wtask, wretry,
                   wres, wwarn, scene>>

\* _run_loop, head of the for body: `if self.should_stop: break`, then
\* `if self.mode == PHASE_BY_PHASE and phase != Phase.STUDY: wait`
run_loop_for(w) ==
    /\ wpc[w] = "for"
    /\ wpc' = [wpc EXCEPT ![w] =
                 IF should_stop THEN "next"
                 ELSE IF mode = PHASE_BY_PHASE /\ phases[widx[w]] # STUDY
                      THEN "prewait" ELSE "exec"]
    /\ UNCHANGED <<control, host, config, plan, current_task, widx, wtask, wretry,
                   wres, wwarn, scene>>

\* _wait_for_resume returns: `while self.is_paused and not self.should_stop`
wait_for_resume ==
    ~(is_paused /\ ~should_stop)

\* a loop that does not look at should_stop after the wait
run_loop_prewait_nostop(w) ==
    /\ wpc[w] = "prewait"
    /\ wait_for_resume
    /\ wpc' = [wpc EXCEPT ![w] = "exec"]
    /\ UNCHANGED <<control, host, config, plan, current_task, widx, wtask, wretry,
                   wres, wwarn, scene>>

\* _run_loop: self._wait_for_resume() before a phase other than STUDY has
\* returned; `if self.should_stop: break`
run_loop_prewait(w) ==
    /\ wpc[w] = "prewait"
    /\ wait_for_resume
    /\ wpc' = [wpc EXCEPT ![w] = IF should_stop THEN "next" ELSE "exec"]
    /\ UNCHANGED <<control, host, config, plan, current_task, widx, wtask, wretry,
                   wres, wwarn, scene>>

\* _execute_phase(phase, self.current_task): `with self.lock:
\* self.current_phase = phase`, at the first attempt and at each retry
execute_phase_enter(w) ==
    /\ wpc[w] \in {"exec", "retry"}
    /\ current_phase' = phases[widx[w]]
    /\ IF wpc[w] = "exec"
       THEN /\ wtask' = [wtask EXCEPT ![w] = current_task]
            /\ scene' = IF scene = "stopped" THEN scene ELSE "none"
       ELSE UNCHANGED <<wtask, scene>>
    /\ wres' = [wres EXCEPT ![w] = NoResult]
    /\ wpc' = [wpc EXCEPT ![w] = "run"]
    /\ UNCHANGED <<mode, is_running, is_paused, should_stop, host, config, plan,
                   current_task, widx, wretry, wwarn>>

\* _execute_phase: the phase function runs and ends; the retry wrapper either
\* sleeps and calls _execute_phase again with retry_count + 1, or returns the
\* result to _run_loop, which breaks (after `with self.lock:
\* self.current_phase = ERROR; self.is_running = False` on a critical
\* failure) or goes on to the pause step
execute_phase_attempt(w) ==
    /\ wpc[w] = "run"
    /\ \E o \in PhaseOutcomes(phases[widx[w]], wtask[w]) :
         LET d == execute_phase_decide(o[1], o[2], phases[widx[w]], wretry[w],
                                       continue_on_non_critical)
             r == [success |-> d.success, warning |-> d.warning, error |-> d.error]
             todo == IF d.retry THEN "retry"
                     ELSE run_loop_result(r, phases[widx[w]], continue_on_non_critical)
             h == history_append(o[1], o[2], phases[widx[w]], wretry[w],
                                 continue_on_non_critical)
         IN  /\ wrecs' = [wrecs EXCEPT ![w] = wrecs[w] + Len(h)]
             /\ recorded' = (recorded \/ h # <<>>)
             /\ wlast' = [wlast EXCEPT ![w] = IF h = <<>> THEN NoEntry ELSE h[Len(h)]]
             /\ wclean' = [wclean EXCEPT ![w] = wclean[w] /\ o[1] = "ok"]
             /\ wsleep' = [wsleep EXCEPT ![w] =
                             IF d.retry THEN retry_sleep(wretry[w]) ELSE 0]
             /\ plan' = IF phases[widx[w]] = UPDATE /\ o[1] = "ok"
                        THEN mark_complete(wtask[w]) ELSE plan
             /\ wres' = [wres EXCEPT ![w] = r]
             /\ wretry' = [wretry EXCEPT ![w] = IF d.retry THEN wretry[w] + 1
                                             ELSE IF o[1] = "ok" THEN 0 ELSE wretry[w]]
             /\ wwarn' = [wwarn EXCEPT ![w] = wwarn[w] \/ (~d.retry /\ d.warning)]
             /\ wpc' = [wpc EXCEPT ![w] =
                          IF todo = "retry" THEN "retry"
                          ELSE IF todo = "go" THEN "pmode" ELSE "next"]
             /\ current_phase' = IF todo = "error" THEN ERROR ELSE current_phase
             /\ is_running' = IF todo = "error" THEN FALSE ELSE is_running
    /\ UNCHANGED <<mode, is_paused, should_stop, host, settings, generated, current_task, widx,
                   wtask, scene>>

\* _run_loop: `if self.mode == LoopMode.PHASE_BY_PHASE` after the phase
run_loop_pmode(w) ==
    /\ wpc[w] = "pmode"
    /\ IF mode = PHASE_BY_PHASE
       THEN /\ wpc' = [wpc EXCEPT ![w] = "pset"]
            /\ widx' = widx
       ELSE NextIteration(w)
    /\ wres' = [wres EXCEPT ![w] = NoResult]
    /\ wretry' = [wretry EXCEPT ![w] = 0]
    /\ wlast' = [wlast EXCEPT ![w] = NoEntry]
    /\ UNCHANGED <<control, host, settings, generated, plan, current_task, wtask, wwarn, wrecs,
                   wclean, wsleep, recorded, scene>>

\* _run_loop: `with self.lock: self.is_paused = True`
run_loop_pause(w) ==
    /\ wpc[w] = "pset"
    /\ is_paused' = TRUE
    /\ wpc' = [wpc EXCEPT ![w] = "pwait"]
    /\ UNCHANGED <<mode, current_phase, is_running, should_stop, host, config, plan,
                   current_task, widx, wtask, wretry, wres, wwarn, scene>>

\* _run_loop: self._wait_for_resume() after the pause was set has returned
run_loop_pwait(w) ==
    /\ wpc[w] = "pwait"
    /\ wait_for_resume
    /\ NextIteration(w)
    /\ UNCHANGED <<control, host, config, plan, current_task, wtask, wretry, wres,
                   wwarn, scene>>

\* _run_loop, after the for loop: `if not self.should_stop:
\* self.current_task = None; time.sleep(1)`
run_loop_next(w) ==
    /\ wpc[w] = "next"
    /\ current_task' = IF should_stop THEN current_task ELSE 0
    /\ wpc' = [wpc EXCEPT ![w] = "while"]
    /\ widx' = [widx EXCEPT ![w] = 1]
    /\ wtask' = [wtask EXCEPT ![w] = 0]
    /\ wretry' = [wretry EXCEPT ![w] = 0]
    /\ wres' = [wres EXCEPT ![w] = NoResult]
    /\ wwarn' = [wwarn EXCEPT ![w] = FALSE]
    /\ wrecs' = [wrecs EXCEPT ![w] = 0]
    /\ wlast' = [wlast EXCEPT ![w] = NoEntry]
    /\ wclean' = [wclean EXCEPT ![w] = TRUE]
    /\ wsleep' = [wsleep EXCEPT ![w] = 0]
    /\ UNCHANGED <<control, host, settings, generated, recorded, plan, scene>>

\* --------------------------------------------------------------- host thread
\* start(mode) without the is_running check
start_unguarded(m) ==
    /\ cpc = "idle"
    /\ \E w \in Workers : wpc[w] = "none"
    /\ cpc' = "start_set"
    /\ carg' = m
    /\ UNCHANGED <<control, thread, config, plan, current_task, wlocal, scene>>

\* start(mode): `if self.is_running: raise RuntimeError`
start(m) ==
    /\ cpc = "idle"
    /\ IF is_running
       THEN /\ cpc' = "start_raised"
            /\ UNCHANGED carg
       ELSE /\ \E w \in Workers : wpc[w] = "none"
            /\ cpc' = "start_set"
            /\ carg' = m
    /\ UNCHANGED <<control, thread, config, plan, current_task, wlocal, scene>>

\* start(mode): the RuntimeError("Loop is already running") reaches the caller
start_raised ==
    /\ cpc = "start_raised"
    /\ cpc' = "idle"
    /\ UNCHANGED <<control, carg, thread, config, plan, current_task, wlocal,
                   scene>>

\* start(mode): the `with self.lock` block
start_set ==
    /\ cpc = "start_set"
    /\ mode' = carg
    /\ is_running' = TRUE
    /\ is_paused' = FALSE
    /\ should_stop' = FALSE
    /\ current_phase' = IDLE
    /\ cpc' = "start_thread"
    /\ scene' = "none"
    /\ UNCHANGED <<carg, thread, config, plan, current_task, wlocal>>

\* start(mode): self.thread = threading.Thread(target=self._run_loop);
\* self.thread.start()
start_thread ==
    /\ cpc = "start_thread"
    /\ \E w \in Workers :
         /\ wpc[w] = "none"
         /\ \A v \in Workers : wpc[v] = "none" => w <= v
         /\ thread' = w
         /\ wpc' = [wpc EXCEPT ![w] = "while"]
         /\ widx' = [widx EXCEPT ![w] = 1]
         /\ wtask' = [wtask EXCEPT ![w] = 0]
         /\ wretry' = [wretry EXCEPT ![w] = 0]
         /\ wres' = [wres EXCEPT ![w] = NoResult]
         /\ wwarn' = [wwarn EXCEPT ![w] = FALSE]
    /\ cpc' = "idle"
    /\ carg' = PHASE_BY_PHASE
    /\ UNCHANGED <<control, config, plan, current_task, scene>>

\* pause()
pause ==
    /\ cpc = "idle"
    /\ is_paused' = TRUE
    /\ scene' = IF scene = "stopped" THEN scene ELSE "none"
    /\ UNCHANGED <<mode, current_phase, is_running, should_stop, host, config, plan,
                   current_task, wlocal>>

\* the phase after which a worker is blocked in the pause-wait, when that
\* phase is not the last one; "none" if there is no such worker
BlockedAfter ==
    IF \E w \in Workers : Blocked(w) /\ wpc[w] = "pwait" /\ widx[w] < Len(phases)
    THEN phases[widx[CHOOSE w \in Workers :
                 Blocked(w) /\ wpc[w] = "pwait" /\ widx[w] < Len(phases)]]
    ELSE "none"

\* resume()
resume ==
    /\ cpc = "idle"
    /\ is_paused' = FALSE
    /\ scene' = IF scene = "stopped" THEN scene ELSE BlockedAfter
    /\ UNCHANGED <<mode, current_phase, is_running, should_stop, host, config, plan,
                   current_task, wlocal>>

\* set_mode(mode)
set_mode(m) ==
    /\ cpc = "idle"
    /\ mode' = m
    /\ is_paused' = IF mode = PHASE_BY_PHASE /\ m = NON_STOP THEN FALSE ELSE is_paused
    /\ UNCHANGED <<current_phase, is_running, should_stop, host, config, plan,
                   current_task, wlocal, scene>>

\* get_status(): reads the fields under the lock, changes nothing
get_status ==
    /\ cpc = "idle"
    /\ UNCHANGED vars

\* stop(): the first `with self.lock` block
stop ==
    /\ cpc = "idle"
    /\ should_stop' = TRUE
    /\ is_paused' = FALSE
    /\ cpc' = "stop_join"
    /\ scene' = IF \E w \in Workers : Blocked(w) THEN "stopped" ELSE "none"
    /\ UNCHANGED <<mode, current_phase, is_running, carg, thread, config, plan,
                   current_task, wlocal>>

\* stop(): the last `with self.lock` block, after the thread was found not
\* alive or self.thread.join(timeout=5) has returned because it exited
stop_joined ==
    /\ cpc = "stop_join"
    /\ ~thread_is_alive
    /\ is_running' = FALSE
    /\ current_phase' = IDLE
    /\ cpc' = "idle"
    /\ UNCHANGED <<mode, is_paused, should_stop, carg, thread, config, plan,
                   current_task, wlocal, scene>>

\* a stop() that resets the state only when the thread has exited
stop_timed_out_keep ==
    /\ cpc = "stop_join"
    /\ thread_is_alive
    /\ InBlockingCall(thread)
    /\ cpc' = "idle"
    /\ UNCHANGED <<control, carg, thread, config, plan, current_task, wlocal, scene>>

\* stop(): the last `with self.lock` block, after join(timeout=5) has timed
\* out with the worker thread still alive
stop_timed_out ==
    /\ cpc = "stop_join"
    /\ thread_is_alive
    /\ InBlockingCall(thread)
    /\ is_running' = FALSE
    /\ current_phase' = IDLE
    /\ cpc' = "idle"
    /\ UNCHANGED <<mode, is_paused, should_stop, carg, thread, config, plan,
                   current_task, wlocal, scene>>

Worker(w) ==
    \/ run_loop_while(w)
    \/ run_loop_generate(w)
    \/ run_loop_generated(w)
    \/ run_loop_for(w)
    \/ run_loop_prewait(w)
    \/ execute_phase_enter(w)
    \/ execute_phase_attempt(w)
    \/ run_loop_pmode(w)
    \/ run_loop_pause(w)
    \/ run_loop_pwait(w)
    \/ run_loop_next(w)

\* no worker thread is alive
NoWorker == \A w \in Workers : ~Alive(w)

\* a host that calls start() only when no worker thread is alive
Host ==
    \/ \E m \in LoopMode : (NoWorker \/ is_running) /\ start(m)
    \/ start_raised
    \/ start_set
    \/ start_thread
    \/ pause
    \/ resume
    \/ \E m \in LoopMode : set_mode(m)
    \/ get_status
    \/ stop
    \/ stop_joined
    \/ stop_timed_out

Next == Host \/ \E w \in Workers : Worker(w)

Spec == Init /\ [][Next]_vars

\* threads are scheduled: a worker that can take a step eventually takes one
FairSpec == Spec /\ \A w \in Workers : WF_vars(Worker(w))

\* a host that starts and stops the loop, and calls start() whenever it
\* likes: start() itself looks at is_running only
HostRestart ==
    \/ \E m \in LoopMode : start(m)
    \/ start_raised
    \/ start_set
    \/ start_thread
    \/ stop
    \/ stop_joined
    \/ stop_timed_out

NextRestart == HostRestart \/ \E w \in Workers : Worker(w)

InitRestart ==
    /\ InitEngine
    /\ NoBlock
    /\ NoDocument
    /\ NoOtherCalls
    /\ continue_on_non_critical = TRUE
    /\ plan = [i \in 1..MaxTasks |-> TRUE]

SpecRestart == InitRestart /\ [][NextRestart]_vars

\* the engine constructed on a task list of up to MaxQueue task lines, each
\* complete or incomplete
InitQueue ==
    /\ InitEngine
    /\ NoBlock
    /\ NoDocument
    /\ NoOtherCalls
    /\ continue_on_non_critical \in BOOLEAN
    /\ plan \in UNION {[1..n -> BOOLEAN] : n \in 1..MaxQueue}

SpecQueue == InitQueue /\ [][Next]_vars

\* ------------------------------------------------- IMPLEMENT: file writes
\* strings are sequences of characters
Range(s) == {s[i] : i \in 1..Len(s)}

\* the characters of the specifiers tried: a name character, the dot, the
\* path separator and one of the characters _sanitize_file_path replaces
PathChars == {"a", ".", "/", "\\"}

Specifiers == UNION {[1..n -> PathChars] : n \in 1..MaxPathLen}

\* self.project_path: the directory /p
project_path == << <<"p">> >>

\* str.replace(c, '') for each c of cs
RECURSIVE remove_chars(_, _)
remove_chars(s, cs) ==
    IF s = <<>> THEN <<>>
    ELSE (IF Head(s) \in cs THEN <<>> ELSE <<Head(s)>>) \o remove_chars(Tail(s), cs)

\* str.strip(cs)
RECURSIVE lstrip(_, _)
lstrip(s, cs) ==
    IF s # <<>> /\ Head(s) \in cs THEN lstrip(Tail(s), cs) ELSE s

RECURSIVE rstrip(_, _)
rstrip(s, cs) ==
    IF s # <<>> /\ s[Len(s)] \in cs THEN rstrip(SubSeq(s, 1, Len(s) - 1), cs) ELSE s

strip(s, cs) == rstrip(lstrip(s, cs), cs)

\* the place of the last c in s, 0 if there is none
rfind(s, c) ==
    IF c \in Range(s) THEN CHOOSE i \in 1..Len(s) : s[i] = c /\ \A j \in (i+1)..Len(s) : s[j] # c
    ELSE 0

invalid_chars == {"<", ">", ":", "\"", "|", "?", "*", "\\"}

\* RalphLoopEngine._sanitize_file_path
sanitize_file_path(path) ==
    LET p1 == remove_chars(path, {"\n", "\r"})
        p2 == [i \in 1..Len(p1) |-> IF p1[i] \in invalid_chars THEN "_" ELSE p1[i]]
        dot == rfind(p2, ".")
        ext == SubSeq(p2, dot + 1, Len(p2))
        p3 == IF Len(p2) > 200
              THEN IF dot # 0 /\ Len(ext) <= 10
                   THEN SubSeq(p2, 1, IF dot - 1 < 200 - Len(ext) - 1
                                      THEN dot - 1 ELSE 200 - Len(ext) - 1)
                        \o <<".">> \o ext
                   ELSE SubSeq(p2, 1, 200)
              ELSE p2
        p4 == strip(p3, {".", " "})
    IN  IF p4 = <<>> THEN <<"f", "i", "l", "e">> ELSE p4

\* the default name of _extract_file_path for the first block of a response
\* whose content _infer_file_extension takes for Python: generated_0.py
generated_name ==
    <<"g", "e", "n", "e", "r", "a", "t", "e", "d", "_", "0", ".", "p", "y">>

\* RalphLoopEngine._extract_file_path for a specifier that has no file:/path:
\* marker, when the content names no path.  No language tag holds a '/', a
\* '\' or a '.', so a specifier with a path indicator is never a language tag;
\* urllib.parse.unquote leaves a string without '%' as it is
extract_file_path(spec) ==
    LET has_path_separator == "/" \in Range(spec) \/ "\\" \in Range(spec)
        has_extension == "." \in Range(spec) /\ Len(spec) - rfind(spec, ".") <= 5
    IN  IF spec # <<>> /\ (has_path_separator \/ has_extension)
        THEN sanitize_file_path(spec)
        ELSE generated_name

\* str.split('/'): the segments of s between the separators
RECURSIVE split_path(_, _)
split_path(s, cur) ==
    IF s = <<>> THEN <<cur>>
    ELSE IF Head(s) = "/" THEN <<cur>> \o split_path(Tail(s), <<>>)
    ELSE split_path(Tail(s), Append(cur, Head(s)))

\* pathlib: the parts of a path string after the root: empty segments and '.'
\* segments are dropped, '..' segments are kept
path_parts(s) ==
    SelectSeq(split_path(s, <<>>), LAMBDA seg : seg # <<>> /\ seg # <<".">>)

\* pathlib: `self.project_path / path`: an absolute right operand replaces the
\* left one
join_path(base, s) ==
    IF s # <<>> /\ Head(s) = "/" THEN path_parts(s) ELSE base \o path_parts(s)

\* the directory entry the operating system reaches for a path: '..' steps to
\* the parent (the parent of "/" is "/")
RECURSIVE resolve(_, _)
resolve(parts, at) ==
    IF parts = <<>> THEN at
    ELSE IF Head(parts) = <<".", ".">>
         THEN resolve(Tail(parts),
                      IF at = <<>> THEN <<>> ELSE SubSeq(at, 1, Len(at) - 1))
         ELSE resolve(Tail(parts), Append(at, Head(parts)))

\* the directories there are once file_path.parent.mkdir(parents=True,
\* exist_ok=True) has run: the project directory, the directories above it,
\* and every directory on the way to the parent of file_path
directories(file_path) ==
    {SubSeq(project_path, 1, n) : n \in 0..Len(project_path)}
    \cup {resolve(SubSeq(file_path, 1, n), <<>>) : n \in 0..(Len(file_path) - 1)}

\* a location strictly below the project directory
under_project(loc) ==
    /\ Len(loc) > Len(project_path)
    /\ SubSeq(loc, 1, Len(project_path)) = project_path

\* _phase_implement: files_created = self._parse_code_blocks(response), for a
\* response with one code block
parse_code_blocks ==
    /\ fpc = "block"
    /\ file_info_path' = extract_file_path(specifier)
    /\ fpc' = "parsed"
    /\ UNCHANGED <<specifier, wrote, write_target>>

\* _phase_implement, the write loop with should_write true: file_path =
\* self.project_path / file_info['path'], mkdir of the parent, write_text;
\* write_text raises on a directory, and the exception is caught and logged
phase_implement_write ==
    /\ fpc = "parsed"
    /\ LET file_path == join_path(project_path, file_info_path)
           loc == resolve(file_path, <<>>)
       IN  IF loc \in directories(file_path)
           THEN UNCHANGED <<wrote, write_target>>
           ELSE /\ wrote' = TRUE
                /\ write_target' = loc
    /\ fpc' = "done"
    /\ UNCHANGED <<specifier, file_info_path>>

\* _phase_implement, the write loop with should_write false: the validation
\* found errors and the file is skipped
phase_implement_skip ==
    /\ fpc = "parsed"
    /\ fpc' = "done"
    /\ UNCHANGED <<specifier, file_info_path, wrote, write_target>>

Engine == <<control, host, continue_on_non_critical, plan, current_task, wlocal,
           history, generated, scene>>

NextImplement ==
    \/ parse_code_blocks /\ UNCHANGED <<Engine, document, others>>
    \/ phase_implement_write /\ UNCHANGED <<Engine, document, others>>
    \/ phase_implement_skip /\ UNCHANGED <<Engine, document, others>>

\* the IMPLEMENT phase on a response whose code block has any specifier of up
\* to MaxPathLen characters
InitImplement ==
    /\ InitEngine
    /\ NoDocument
    /\ NoOtherCalls
    /\ continue_on_non_critical = TRUE
    /\ plan = <<>>
    /\ specifier \in Specifiers
    /\ fpc = "block"
    /\ file_info_path = <<>>
    /\ wrote = FALSE
    /\ write_target = <<>>

SpecImplement == InitImplement /\ [][NextImplement]_vars

\* ------------------------------------------------- @fix_plan.md, line by line
\* lines are sequences of characters; a document is the sequence of the
\* lines between its newlines
MaxLines == 4

HighHeader      == <<"#", "#", " ", "H", "i", "g", "h", " ", "P", "r", "i", "o", "r", "i", "t", "y">>
MediumHeader    == <<"#", "#", " ", "M", "e", "d", "i", "u", "m", " ", "P", "r", "i", "o", "r", "i", "t", "y">>
LowHeader       == <<"#", "#", " ", "L", "o", "w", " ", "P", "r", "i", "o", "r", "i", "t", "y">>
CompletedHeader == <<"#", "#", " ", "C", "o", "m", "p", "l", "e", "t", "e", "d", " ", "T", "a", "s", "k", "s">>
\* a description line and the free text lines of the template, cut to their
\* first characters
Description     == <<">", " ", "d">>
Title           == <<"#", " ", "F">>
LastUpdated     == <<"*", "*", "L">>
Separator       == <<"-", "-", "-">>
Incomplete      == <<"-", " ", "[", " ", "]">>
IncompleteBox   == <<"-", " ", "[", " ", "]", " ">>
CompleteBox     == <<"-", " ", "[", "x", "]", " ">>

\* the task texts tried: one is the beginning of another
TaskTexts == {<<"a">>, <<"a", "b">>, <<"b">>}

\* the lines documents are made of
DocLines ==
    {HighHeader, MediumHeader, LowHeader, CompletedHeader, Description, Separator,
     IncompleteBox \o <<"a">>, IncompleteBox \o <<"a", "b">>, CompleteBox \o <<"a">>}

Documents == UNION {[1..n -> DocLines] : n \in 0..MaxLines}

\* the characters str.strip() removes
whitespace == {" ", "\t"}

\* str.startswith
startswith(s, prefix) ==
    Len(s) >= Len(prefix) /\ SubSeq(s, 1, Len(prefix)) = prefix

\* content.split('\n') of the content whose lines are d
split_lines(d) == IF d = <<>> THEN << <<>> >> ELSE d

\* the template add_tasks_to_fix_plan starts from when the file is missing
template ==
    <<Title, <<>>, Description, Description, <<>>, LastUpdated, <<>>, Separator, <<>>,
      HighHeader, <<>>, Description, <<>>, Separator, <<>>,
      MediumHeader, <<>>, Description, <<>>, Separator, <<>>,
      LowHeader, <<>>, Description, <<>>, Separator, <<>>,
      CompletedHeader, <<>>, Description, <<>>, Separator, <<>>, <<>> >>

\* a reader that stays in a priority section across other headers
RECURSIVE read_lines_any_header(_, _)
read_lines_any_header(ls, in_priority_section) ==
    IF ls = <<>> THEN <<>>
    ELSE LET line == strip(Head(ls), whitespace)
         IN  IF startswith(line, <<"#", "#">>)
             THEN read_lines_any_header(Tail(ls), TRUE)
             ELSE IF in_priority_section /\ startswith(line, Incomplete)
             THEN <<strip(SubSeq(line, 6, Len(line)), whitespace)>>
                  \o read_lines_any_header(Tail(ls), in_priority_section)
             ELSE read_lines_any_header(Tail(ls), in_priority_section)

\* TaskParser.read_tasks / RalphLoopEngine._read_fix_plan, the loop over the
\* lines of the file
RECURSIVE read_lines(_, _)
read_lines(ls, in_priority_section) ==
    IF ls = <<>> THEN <<>>
    ELSE LET line == strip(Head(ls), whitespace)
         IN  IF \/ startswith(line, HighHeader)
                \/ startswith(line, MediumHeader)
                \/ startswith(line, LowHeader)
             THEN read_lines(Tail(ls), TRUE)
             ELSE IF startswith(line, <<"#", "#">>)
             THEN read_lines(Tail(ls), FALSE)
             ELSE IF in_priority_section /\ startswith(line, Incomplete)
             THEN LET task == strip(SubSeq(line, 6, Len(line)), whitespace)
                  IN  (IF task # <<>> THEN <<task>> ELSE <<>>)
                      \o read_lines(Tail(ls), in_priority_section)
             ELSE read_lines(Tail(ls), in_priority_section)

\* TaskParser.read_tasks / RalphLoopEngine._read_fix_plan
read_tasks(exists, d) ==
    IF ~exists THEN <<>> ELSE read_lines(d, FALSE)

\* the place of the first occurrence of pattern in text, 0 if there is none
find(text, pattern) ==
    IF contains(text, pattern)
    THEN CHOOSE i \in 1..(Len(text) - Len(pattern) + 1) :
           /\ SubSeq(text, i, i + Len(pattern) - 1) = pattern
           /\ \A j \in 1..(i - 1) : SubSeq(text, j, j + Len(pattern) - 1) # pattern
    ELSE 0

\* TaskParser.mark_task_complete / RalphLoopEngine._phase_update:
\* re.sub(rf'(- \[ \] {re.escape(task)})', f'- [x] {task}', content, count=1).
\* The pattern has no newline and no anchor: the first match lies within the
\* first line that contains `- [ ] task` anywhere
mark_task_complete(exists, d, task) ==
    LET pattern == IncompleteBox \o task
    IN  IF exists /\ \E i \in 1..Len(d) : contains(d[i], pattern)
        THEN LET i == CHOOSE k \in 1..Len(d) :
                        /\ contains(d[k], pattern)
                        /\ \A j \in 1..(k - 1) : ~contains(d[j], pattern)
                 p == find(d[i], pattern)
                 line == SubSeq(d[i], 1, p - 1) \o CompleteBox \o task
                         \o SubSeq(d[i], p + Len(pattern), Len(d[i]))
             IN  [doc |-> [d EXCEPT ![i] = line], changed |-> line # d[i]]
        ELSE [doc |-> d, changed |-> FALSE]

\* the lines `- [ ] task` of the tasks
RECURSIVE task_lines(_)
task_lines(tasks) ==
    IF tasks = <<>> THEN <<>>
    ELSE <<IncompleteBox \o Head(tasks)>> \o task_lines(Tail(tasks))

\* TaskParser.add_tasks_to_fix_plan / RalphLoopEngine._add_tasks_to_fix_plan,
\* the loop over the lines: new_lines and the flags at its end
RECURSIVE add_scan(_, _, _, _, _)
add_scan(ls, tasks, high_priority_found, after_description, tasks_added) ==
    IF ls = <<>>
    THEN [new_lines |-> <<>>, high_priority_found |-> high_priority_found,
          tasks_added |-> tasks_added]
    ELSE LET line == Head(ls)
             s == strip(line, whitespace)
             put(before, r) == [r EXCEPT !.new_lines = before \o @]
         IN  IF s = HighHeader
             THEN put(<<line>>, add_scan(Tail(ls), tasks, TRUE, after_description,
                                         tasks_added))
             ELSE IF high_priority_found /\ ~after_description
             THEN put(<<line>>, add_scan(Tail(ls), tasks, high_priority_found,
                                         startswith(s, <<">">>), tasks_added))
             ELSE IF high_priority_found /\ after_description /\ ~tasks_added
             THEN IF \/ startswith(s, Separator)
                     \/ startswith(s, <<"#", "#">>) /\ s # HighHeader
                  THEN put(task_lines(tasks) \o << <<>>, line >>,
                           add_scan(Tail(ls), tasks, high_priority_found,
                                    after_description, TRUE))
                  ELSE put(<<line>>, add_scan(Tail(ls), tasks, high_priority_found,
                                              after_description, tasks_added))
             ELSE put(<<line>>, add_scan(Tail(ls), tasks, high_priority_found,
                                         after_description, tasks_added))

\* TaskParser.add_tasks_to_fix_plan / RalphLoopEngine._add_tasks_to_fix_plan:
\* the file after the call and the value returned
add_tasks_to_fix_plan(exists, d, tasks) ==
    IF tasks = <<>>
    THEN [exists |-> exists, doc |-> d, added |-> FALSE]
    ELSE LET r == add_scan(IF exists THEN split_lines(d) ELSE template, tasks,
                           FALSE, FALSE, FALSE)
         IN  IF ~r.high_priority_found
             THEN [exists |-> TRUE,
                   doc |-> r.new_lines \o << <<>>, HighHeader, <<>>, Description, <<>> >>
                           \o task_lines(tasks) \o << <<>>, Separator, <<>> >>,
                   added |-> TRUE]
             ELSE [exists |-> TRUE, doc |-> r.new_lines, added |-> r.tasks_added]

\* a caller reads the tasks, of the file as given or as add_tasks_to_fix_plan
\* left it
call_read_tasks ==
    /\ tpc \in {"ready", "added"}
    /\ tread' = read_tasks(doc_exists, doc)
    /\ tpc' = IF tpc = "ready" THEN "read" ELSE "added_read"
    /\ UNCHANGED <<doc_exists, doc, targ, tret, doc0>>

\* a caller marks a task complete
call_mark_task_complete ==
    /\ tpc = "ready"
    /\ \E task \in TaskTexts :
         LET r == mark_task_complete(doc_exists, doc, task)
         IN  /\ targ' = <<task>>
             /\ doc' = r.doc
             /\ tret' = r.changed
    /\ doc0' = doc
    /\ tpc' = "marked"
    /\ UNCHANGED <<doc_exists, tread>>

\* a caller adds no task or two tasks
call_add_tasks_to_fix_plan ==
    /\ tpc = "ready"
    /\ \E tasks \in {<<>>, << <<"b">>, <<"c">> >>} :
         LET r == add_tasks_to_fix_plan(doc_exists, doc, tasks)
         IN  /\ targ' = tasks
             /\ doc_exists' = r.exists
             /\ doc' = r.doc
             /\ tret' = r.added
    /\ doc0' = doc
    /\ tpc' = "added"
    /\ UNCHANGED tread

block == <<specifier, fpc, file_info_path, wrote, write_target>>

NextTasks ==
    \/ call_read_tasks /\ UNCHANGED <<Engine, block, others>>
    \/ call_mark_task_complete /\ UNCHANGED <<Engine, block, others>>
    \/ call_add_tasks_to_fix_plan /\ UNCHANGED <<Engine, block, others>>

\* a caller about to call a task-list function on a missing file or on any
\* document of up to MaxLines lines
InitTasks ==
    /\ InitEngine
    /\ NoBlock
    /\ continue_on_non_critical = TRUE
    /\ plan = <<>>
    /\ doc_exists \in BOOLEAN
    /\ doc \in IF doc_exists THEN Documents ELSE {<<>>}
    /\ tpc = "ready"
    /\ targ = <<>>
    /\ tret = FALSE
    /\ tread = <<>>
    /\ doc0 = <<>>
    /\ NoOtherCalls

SpecTasks == InitTasks /\ [][NextTasks]_vars

\* ------------------------------------------------ error classification calls
\* str.upper()
upper(s) ==
    [i \in 1..Len(s) |->
       IF \E j \in 1..26 : LowerCase[j] = s[i]
       THEN UpperCase[CHOOSE j \in 1..26 : LowerCase[j] = s[i]]
       ELSE s[i]]

\* str.capitalize() of a lower-case text
capitalize(s) == [i \in 1..Len(s) |-> IF i = 1 THEN upper(s)[1] ELSE s[i]]

\* texts that come close to a critical keyword without containing one
NearMisses ==
    { <<>>,
      <<"p", "e", "r", "m", "i", "s", "s", "i", "o", "n">>,
      <<"d", "e", "n", "i", "e", "d", " ", "p", "e", "r", "m", "i", "s", "s", "i", "o", "n">>,
      <<"t", "i", "m", "e", " ", "o", "u", "t">>,
      <<"d", "i", "s", "k", " ", "i", "s", " ", "f", "u", "l", "l">>,
      <<"m", "e", "m", "o", "r", "y">>,
      <<"r", "e", "f", "u", "s", "e", "d">>,
      <<"i", "n", "v", "a", "l", "i", "d", " ", "k", "e", "y">>,
      <<"M", "o", "d", "e", "l", " ", "n", "o", "t", " ", "f", "o", "u", "n", "d">> }

\* what the error texts tried are built around: each critical keyword in
\* lower case, in upper case and capitalized, and the near misses
Cores ==
    critical_patterns \cup {upper(k) : k \in critical_patterns}
    \cup {capitalize(k) : k \in critical_patterns} \cup NearMisses

\* what stands before and after
Before == {<<>>, <<"E", "r", "r", "o", "r", ":", " ">>}
After  == {<<>>, <<" ", "(", "o", "s", ")">>}

\* ErrorRecovery.should_retry(error, phase, retry_count)
should_retry(error, phase, retry_count) ==
    IF retry_count >= max_retries THEN FALSE
    ELSE IF is_critical_error(error, phase) THEN FALSE
    ELSE TRUE

\* a caller classifies the error text for the phase and asks for a retry
call_is_critical_error ==
    /\ kpc = "ready"
    /\ kres' = [critical |-> is_critical_error(ktext, kphase),
                retry |-> should_retry(ktext, kphase, kretry)]
    /\ kpc' = "done"
    /\ UNCHANGED <<ktext, kkeyword, kphase, kretry>>

NextClassify ==
    call_is_critical_error
    /\ UNCHANGED <<Engine, block, document, tracker, emission, parsing, estimate>>

\* a caller about to classify any of the error texts tried, for any phase and
\* any retry_count up to max_retries
InitClassify ==
    /\ InitEngine
    /\ NoBlock
    /\ NoDocument
    /\ NoTracker
    /\ NoEmission
    /\ NoResponse
    /\ NoEstimate
    /\ continue_on_non_critical = TRUE
    /\ plan = <<>>
    /\ \E b \in Before, c \in Cores, a \in After :
         /\ ktext = b \o c \o a
         /\ kkeyword = (c \notin NearMisses)
    /\ kphase \in {STUDY, IMPLEMENT, TEST, UPDATE}
    /\ kretry \in 0..max_retries
    /\ kpc = "ready"
    /\ kres = [critical |-> FALSE, retry |-> FALSE]

SpecClassify == InitClassify /\ [][NextClassify]_vars

\* ------------------------------------------------------------- file tracker
\* FileTracker (file_tracker.py) over a project directory of at most two
\* files.  Time is counted in tenths of a second; a modification time is an
\* integer on a grid Resolution times finer than what isoformat() keeps.

\* writes to the directory up to which the calls are tried
MaxWrites == 3

\* the paths that are created, rewritten and deleted while the tracker is in
\* use; the other path is at most a file that was there before
Outputs == {"b"}

\* self._cache_ttl = 0.5, in tenths of a second
cache_ttl == 5

\* self._check_interval = 0.2, in tenths of a second
check_interval == 2

\* st_mtime steps per microsecond kept by datetime.isoformat()
Resolution == 3

\* where the st_mtime of a write can lie around the nearest microsecond
Offsets == {-1, 0, 1}

\* datetime.fromtimestamp(mtime).isoformat() read back by
\* datetime.fromisoformat(...).timestamp(): the time rounded to microseconds
isoformat(mtime) == Resolution * ((mtime + 1) \div Resolution)

keys(snapshot) == {p \in Paths : snapshot[p] # 0}

\* the os.walk and os.path.getmtime loops of take_snapshot
scan == [p \in Paths |-> IF disk[p] = 0 THEN 0 ELSE isoformat(disk[p])]

\* take_snapshot(force_refresh) called with the cache c of age a: the snapshot
\* returned, and the cache and its age afterwards
take_snapshot(c, a, force_refresh) ==
    IF ~force_refresh /\ c.valid /\ a < cache_ttl
    THEN [snapshot |-> c.files, cache |-> c, age |-> a]
    ELSE [snapshot |-> scan,
          cache |-> [valid |-> TRUE, files |-> scan],
          age |-> 0]

\* the `modified` test of get_changes for a file of the snapshot that is in
\* initial_snapshot
is_modified(file, snapshot) ==
    IF tracked_files[file] # 0
    THEN snapshot[file] > tracked_files[file]
    ELSE disk[file] # 0 /\ disk[file] > snapshot[file]

\* get_changes() called with the cache c of age a, `check` after the last
\* computation of the changes `last`: the changes returned and the cache, its
\* age, _last_changes and the time since _last_check_time afterwards
get_changes_at(c, a, check, last) ==
    IF check < check_interval /\ last.valid
    THEN [changes |-> last, cache |-> c, age |-> a,
          last |-> last, check |-> check]
    ELSE LET t == take_snapshot(c, a, FALSE)
             current_files == keys(t.snapshot)
             changes ==
                 [valid |-> TRUE,
                  created |-> current_files \ initial_snapshot,
                  modified |-> {file \in current_files \cap initial_snapshot :
                                  is_modified(file, t.snapshot)},
                  deleted |-> initial_snapshot \ current_files]
         IN  [changes |-> changes, cache |-> t.cache, age |-> t.age,
              last |-> changes, check |-> 0]

\* get_changes() called on the tracker as it is
get_changes(c, a) == get_changes_at(c, a, check_age, last_changes)

\* a time since a cache was filled, 0.1 s later
aged(age, limit) == IF age < limit THEN age + 1 ELSE age

\* what the directory was doing to a path since start_tracking()
Lives == {"old", "changed", "made", "remade", "folded", "refolded", "none"}

\* a path's history after update_snapshot() has returned `changes`
fold(l, file, changes) ==
    IF file \in changes.created /\ l = "made" THEN "folded"
    ELSE IF file \in changes.created /\ l = "remade" THEN "refolded"
    ELSE l

\* 0.1 s passes
tick ==
    /\ cache_age < cache_ttl \/ check_age < check_interval
    /\ cache_age' = aged(cache_age, cache_ttl)
    /\ check_age' = aged(check_age, check_interval)
    /\ UNCHANGED <<disk, writes, initial_snapshot, current_snapshot,
                   tracked_files, snapshot_cache, last_changes, tracking,
                   life>>

\* a phase (or anyone else) creates or rewrites the file
write_file(file) ==
    /\ writes < MaxWrites
    /\ writes' = writes + 1
    /\ \E f \in Offsets :
         disk' = [disk EXCEPT ![file] = Resolution * writes' + f]
    /\ life' = [life EXCEPT ![file] =
                  IF life[file] = "none" THEN "made"
                  ELSE IF life[file] = "made" THEN "remade"
                  ELSE IF life[file] = "old" THEN "changed"
                  ELSE life[file]]
    /\ UNCHANGED <<initial_snapshot, current_snapshot, tracked_files,
                   snapshot_cache, cache_age, check_age, last_changes,
                   tracking>>

\* the file is removed
delete_file(file) ==
    /\ disk[file] # 0
    /\ disk' = [disk EXCEPT ![file] = 0]
    /\ life' = [life EXCEPT ![file] =
                  IF life[file] \in {"old", "changed"} THEN "changed"
                  ELSE "none"]
    /\ UNCHANGED <<writes, initial_snapshot, current_snapshot, tracked_files,
                   snapshot_cache, cache_age, check_age, last_changes,
                   tracking>>

\* start_tracking()
start_tracking ==
    LET t == take_snapshot(snapshot_cache, cache_age, FALSE) IN
    /\ initial_snapshot' = keys(t.snapshot)
    /\ current_snapshot' = keys(t.snapshot)
    /\ snapshot_cache' = t.cache
    /\ cache_age' = t.age
    /\ tracking' = TRUE
    /\ life' = [p \in Paths |-> IF disk[p] # 0 THEN "old" ELSE "none"]
    /\ UNCHANGED <<disk, writes, tracked_files, check_age, last_changes>>

\* a call of get_changes()
call_get_changes ==
    LET g == get_changes(snapshot_cache, cache_age) IN
    /\ tracking
    /\ snapshot_cache' = g.cache
    /\ cache_age' = g.age
    /\ last_changes' = g.last
    /\ check_age' = g.check
    /\ UNCHANGED <<disk, writes, initial_snapshot, current_snapshot,
                   tracked_files, tracking, life>>

\* update_snapshot(), as the worker calls it after each phase
update_snapshot ==
    LET g == get_changes(snapshot_cache, cache_age)
        changes == g.changes
        t == take_snapshot(g.cache, g.age, FALSE)
        files_to_update == changes.created \cup changes.modified
    IN  /\ tracking
        /\ tracked_files' =
             [file \in Paths |->
                IF file \in files_to_update /\ disk[file] # 0
                THEN disk[file] ELSE tracked_files[file]]
        /\ current_snapshot' = keys(t.snapshot)
        /\ snapshot_cache' = NoCache
        /\ cache_age' = t.age
        /\ last_changes' = g.last
        /\ check_age' = g.check
        /\ life' = [file \in Paths |-> fold(life[file], file, changes)]
        /\ UNCHANGED <<disk, writes, initial_snapshot, tracking>>

\* get_all_files(), as get_status() calls it: one take_snapshot() and one
\* get_changes(); the list returned is not kept
get_all_files ==
    LET t == take_snapshot(snapshot_cache, cache_age, FALSE)
        g == get_changes(t.cache, t.age)
    IN  /\ snapshot_cache' = g.cache
        /\ cache_age' = g.age
        /\ last_changes' = g.last
        /\ check_age' = g.check
        /\ UNCHANGED <<disk, writes, initial_snapshot, current_snapshot,
                       tracked_files, tracking, life>>

NextTracker ==
    \/ tick /\ UNCHANGED <<Engine, block, document, classify, emission,
                    parsing, estimate>>
    \/ \E file \in Outputs :
         write_file(file) /\ UNCHANGED <<Engine, block, document, classify, emission,
                    parsing, estimate>>
    \/ \E file \in Outputs :
         delete_file(file) /\ UNCHANGED <<Engine, block, document, classify, emission,
                    parsing, estimate>>
    \/ start_tracking /\ UNCHANGED <<Engine, block, document, classify, emission,
                    parsing, estimate>>
    \/ call_get_changes /\ UNCHANGED <<Engine, block, document, classify, emission,
                    parsing, estimate>>
    \/ update_snapshot /\ UNCHANGED <<Engine, block, document, classify, emission,
                    parsing, estimate>>
    \/ get_all_files /\ UNCHANGED <<Engine, block, document, classify, emission,
                    parsing, estimate>>

\* a tracker just constructed over a directory holding any of the files,
\* each written once
InitTracker ==
    /\ InitEngine
    /\ NoBlock
    /\ NoDocument
    /\ NoClassify
    /\ NoEmission
    /\ NoResponse
    /\ NoEstimate
    /\ continue_on_non_critical = TRUE
    /\ plan = <<>>
    /\ disk \in [Paths -> {0} \cup {Resolution + f : f \in Offsets}]
    /\ writes = 1
    /\ initial_snapshot = {}
    /\ current_snapshot = {}
    /\ tracked_files = NoSnapshot
    /\ snapshot_cache = NoCache
    /\ cache_age = cache_ttl
    /\ check_age = check_interval
    /\ last_changes = NoChanges
    /\ tracking = FALSE
    /\ life = [p \in Paths |-> "none"]

SpecTracker == InitTracker /\ [][NextTracker]_vars

\* ------------------------------------------------------------ status events
\* _log_status and _emit_status as the worker thread and a thread calling the
\* control operations and get_status() run them, with the engine lock around
\* the blocks that take it.

\* how the status callback can end
CallbackOutcomes == {"returns", "raises"}

\* _emit_status whose callback call is not inside a try
emit_status_uncaught(outcome) ==
    IF outcome = "raises" THEN "propagated" ELSE "after"

\* _emit_status: where the thread is once the callback has ended; the
\* `except Exception` logs the error and falls through
emit_status(outcome) == "after"

\* `with self.lock:` of _execute_phase (worker) or of pause() (host) is
\* entered: the thread waits until the lock is free
lock_acquire(t) ==
    /\ epc[t] = "idle"
    /\ status_log < MaxLog
    /\ lock = "free"
    /\ lock' = t
    /\ epc' = [epc EXCEPT ![t] = "locked"]
    /\ UNCHANGED <<status_callback, status_log, eraised, elen>>

\* a block that calls _log_status before its `with self.lock:` has ended
lock_release_late(t) ==
    /\ epc[t] = "locked"
    /\ lock' = lock
    /\ epc' = [epc EXCEPT ![t] = "log"]
    /\ UNCHANGED <<status_callback, status_log, eraised, elen>>

\* the end of that `with self.lock:` block; _log_status is called next
lock_release(t) ==
    /\ epc[t] = "locked"
    /\ lock' = "free"
    /\ epc' = [epc EXCEPT ![t] = "log"]
    /\ UNCHANGED <<status_callback, status_log, eraised, elen>>

\* _log_status up to self.status_log.append(status_entry)
log_status(t) ==
    /\ epc[t] = "log"
    /\ elen' = [elen EXCEPT ![t] = status_log]
    /\ status_log' = status_log + 1
    /\ eraised' = [eraised EXCEPT ![t] = FALSE]
    /\ epc' = [epc EXCEPT ![t] = "emit"]
    /\ UNCHANGED <<status_callback, lock>>

\* _emit_status: `if self.status_callback:` and the call of the callback
emit_status_call(t) ==
    /\ epc[t] = "emit"
    /\ epc' = [epc EXCEPT ![t] = IF status_callback THEN "callback"
                                 ELSE "after"]
    /\ UNCHANGED <<status_callback, status_log, lock, eraised, elen>>

\* the callback returns or raises
emit_status_end(t) ==
    /\ epc[t] = "callback"
    /\ \E outcome \in CallbackOutcomes :
         /\ eraised' = [eraised EXCEPT ![t] = (outcome = "raises")]
         /\ epc' = [epc EXCEPT ![t] = emit_status(outcome)]
    /\ UNCHANGED <<status_callback, status_log, lock, elen>>

\* a status callback that calls get_status() on the thread that emits the
\* event: `with self.lock:` is entered
callback_get_status(t) ==
    /\ epc[t] = "callback"
    /\ lock = "free"
    /\ lock' = t
    /\ epc' = [epc EXCEPT ![t] = "polled"]
    /\ UNCHANGED <<status_callback, status_log, eraised, elen>>

\* that get_status() has built its dictionary and left `with self.lock:`;
\* the callback goes on
callback_get_status_return(t) ==
    /\ epc[t] = "polled"
    /\ lock' = "free"
    /\ epc' = [epc EXCEPT ![t] = "callback"]
    /\ UNCHANGED <<status_callback, status_log, eraised, elen>>

\* _log_status has returned: the operation that called it goes on
log_status_return(t) ==
    /\ epc[t] = "after"
    /\ epc' = [epc EXCEPT ![t] = "idle"]
    /\ UNCHANGED <<status_callback, status_log, lock, eraised, elen>>

\* get_status(): `with self.lock:` is entered
get_status_acquire ==
    /\ epc["host"] = "idle"
    /\ lock = "free"
    /\ lock' = "host"
    /\ epc' = [epc EXCEPT !["host"] = "progress"]
    /\ UNCHANGED <<status_callback, status_log, eraised, elen>>

\* get_status(): _calculate_phase_progress, _calculate_task_progress and
\* _estimate_time_remaining
get_status_progress ==
    /\ epc["host"] = "progress"
    /\ epc' = [epc EXCEPT !["host"] = "files"]
    /\ UNCHANGED <<status_callback, status_log, lock, eraised, elen>>

\* get_status(): self.file_tracker.get_all_files() has walked the directory,
\* the dictionary is built and the `with self.lock:` block ends
get_status_return ==
    /\ epc["host"] = "files"
    /\ lock' = "free"
    /\ epc' = [epc EXCEPT !["host"] = "idle"]
    /\ UNCHANGED <<status_callback, status_log, eraised, elen>>

NextEmission ==
    \/ \E t \in Threads : lock_acquire(t) /\ UNCHANGED <<Engine, block, document, classify, tracker,
                    parsing, estimate>>
    \/ \E t \in Threads : lock_release(t) /\ UNCHANGED <<Engine, block, document, classify, tracker,
                    parsing, estimate>>
    \/ \E t \in Threads : log_status(t) /\ UNCHANGED <<Engine, block, document, classify, tracker,
                    parsing, estimate>>
    \/ \E t \in Threads : emit_status_call(t) /\ UNCHANGED <<Engine, block, document, classify, tracker,
                    parsing, estimate>>
    \/ \E t \in Threads : emit_status_end(t) /\ UNCHANGED <<Engine, block, document, classify, tracker,
                    parsing, estimate>>
    \/ \E t \in Threads : log_status_return(t) /\ UNCHANGED <<Engine, block, document, classify, tracker,
                    parsing, estimate>>
    \/ \E t \in Threads : callback_get_status(t) /\ UNCHANGED <<Engine, block, document, classify, tracker,
                    parsing, estimate>>
    \/ \E t \in Threads : callback_get_status_return(t) /\ UNCHANGED <<Engine, block, document, classify, tracker,
                    parsing, estimate>>
    \/ get_status_acquire /\ UNCHANGED <<Engine, block, document, classify, tracker,
                    parsing, estimate>>
    \/ get_status_progress /\ UNCHANGED <<Engine, block, document, classify, tracker,
                    parsing, estimate>>
    \/ get_status_return /\ UNCHANGED <<Engine, block, document, classify, tracker,
                    parsing, estimate>>

\* an engine just constructed, with or without a status callback set
InitEmission ==
    /\ InitEngine
    /\ NoBlock
    /\ NoDocument
    /\ NoClassify
    /\ NoTracker
    /\ NoResponse
    /\ NoEstimate
    /\ continue_on_non_critical = TRUE
    /\ plan = <<>>
    /\ status_callback \in BOOLEAN
    /\ status_log = 0
    /\ lock = "free"
    /\ epc = [t \in Threads |-> "idle"]
    /\ eraised = [t \in Threads |-> FALSE]
    /\ elen = [t \in Threads |-> 0]

SpecEmission == InitEmission /\ [][NextEmission]_vars

\* ------------------------------------------------- IMPLEMENT: code blocks
\* _parse_code_blocks over a response of up to MaxBlocks fenced blocks, each
\* with the specifier of its opening fence and its content, both stripped.

\* fenced blocks in a response
MaxBlocks == 3

\* language_tags of _extract_file_path
language_tags ==
    { <<"p","y","t","h","o","n">>,
      <<"j","a","v","a","s","c","r","i","p","t">>,
      <<"j","s">>,
      <<"t","y","p","e","s","c","r","i","p","t">>,
      <<"t","s">>,
      <<"j","a","v","a">>,
      <<"c","p","p">>,
      <<"c","+","+">>,
      <<"c">>,
      <<"g","o">>,
      <<"r","u","s","t">>,
      <<"r","u","b","y">>,
      <<"p","h","p">>,
      <<"s","w","i","f","t">>,
      <<"k","o","t","l","i","n">>,
      <<"s","c","a","l","a">>,
      <<"r">>,
      <<"s","q","l">>,
      <<"h","t","m","l">>,
      <<"c","s","s">>,
      <<"j","s","o","n">>,
      <<"y","a","m","l">>,
      <<"y","m","l">>,
      <<"x","m","l">>,
      <<"m","a","r","k","d","o","w","n">>,
      <<"m","d">>,
      <<"b","a","s","h">>,
      <<"s","h">>,
      <<"s","h","e","l","l">>,
      <<"p","o","w","e","r","s","h","e","l","l">>,
      <<"p","s","1">>,
      <<"d","o","c","k","e","r","f","i","l","e">>,
      <<"m","a","k","e","f","i","l","e">>,
      <<"c","m","a","k","e">>,
      <<"t","x","t">>,
      <<"p","l","a","i","n","t","e","x","t">> }

\* the specifiers tried: none, language tags in several letter cases, a file
\* name and a word that is neither
BlockSpecifiers ==
    { <<>>,
      <<"j","s">>,
      <<"J","S">>,
      <<"M","d">>,
      <<"c","+","+">>,
      <<"a",".","p","y">>,
      <<"j","s","x">> }

\* the contents tried: empty, with nothing to go by, JSON, with a path hint
\* that reads like a language tag, Markdown
BlockContents ==
    { <<>>,
      <<"x">>,
      <<"{","}">>,
      <<"f","i","l","e",":"," ","j","s">>,
      <<"#"," ","t">> }

Blocks == [specifier : BlockSpecifiers, content : BlockContents]

Responses == UNION {[1..n -> Blocks] : n \in 1..MaxBlocks}

\* \s of the regular expressions
regex_space == {" ", "\t", "\n", "\r"}

\* the words the path patterns look for
hint_keywords ==
    { <<"f","i","l","e">>,
      <<"p","a","t","h">>,
      <<"c","r","e","a","t","e">>,
      <<"s","a","v","e">>,
      <<"w","r","i","t","e">> }

\* the explicit markers of a specifier
marker_keywords ==
    { <<"f","i","l","e",":">>,
      <<"p","a","t","h",":">>,
      <<"c","r","e","a","t","e",":">>,
      <<"s","a","v","e",":">>,
      <<"w","r","i","t","e",":">> }

\* every specifier is taken for a path
looks_like_path_always(spec) == TRUE

\* _extract_file_path: (has_path_separator or has_extension) and
\* specifier_lower not in language_tags
looks_like_path(spec) ==
    LET has_path_separator == "/" \in Range(spec) \/ "\\" \in Range(spec)
        has_extension == "." \in Range(spec) /\ Len(spec) - rfind(spec, ".") <= 5
    IN  (has_path_separator \/ has_extension) /\ lower(spec) \notin language_tags

\* re.match(r'^<marker>\s*(.+)', specifier, re.IGNORECASE) for the markers in
\* turn: the path after the marker, stripped of spaces and quotes, <<>> if no
\* marker gives one (a specifier holds no backtick)
marker_path(spec) ==
    LET after(k) == strip(strip(SubSeq(spec, Len(k) + 1, Len(spec)), regex_space),
                          {"\"", "'"})
        markers == {k \in marker_keywords :
                      startswith(lower(spec), k) /\ after(k) # <<>>}
    IN  IF markers = {} THEN <<>>
        ELSE after(CHOOSE k \in markers : TRUE)

\* a hint keyword stands at place i of the content and is followed by a colon
\* or a space and then by something that is not a space
hint_at(content, i) ==
    \E k \in hint_keywords :
      /\ i + Len(k) + 1 <= Len(content)
      /\ SubSeq(lower(content), i, i + Len(k) - 1) = k
      /\ content[i + Len(k)] \in regex_space \cup {":"}

\* where the group of the first path pattern starts for the keyword at i: the
\* separators are taken as far as they go, but one character is left
hint_start(content, i) ==
    LET k == CHOOSE k \in hint_keywords :
               SubSeq(lower(content), i, i + Len(k) - 1) = k
        from == i + Len(k)
        upto == CHOOSE j \in (from + 1)..(Len(content) + 1) :
                  /\ \A n \in from..(j - 1) : content[n] \in regex_space \cup {":"}
                  /\ j <= Len(content) => content[j] \notin regex_space \cup {":"}
    IN  IF upto <= Len(content) THEN upto ELSE Len(content)

\* re.sub(r'^(?:file|path|create|save|write)[:\s]+', '', path)
lstrip_hint(path) ==
    LET prefixes == {k \in hint_keywords :
                    /\ Len(path) > Len(k)
                    /\ SubSeq(lower(path), 1, Len(k)) = k
                    /\ path[Len(k) + 1] \in regex_space \cup {":"}}
    IN  IF prefixes = {} THEN path
        ELSE LET k == CHOOSE k \in prefixes : TRUE
             IN  lstrip(SubSeq(path, Len(k) + 1, Len(path)), regex_space \cup {":"})

\* the first path pattern on the content (the other three match only where it
\* does): the path named by the content, <<>> if there is none
content_hint(content) ==
    LET places == {i \in 1..Len(content) : hint_at(content, i)}
    IN  IF places = {} THEN <<>>
        ELSE LET i == CHOOSE i \in places : \A j \in places : i <= j
                 group == SubSeq(content, hint_start(content, i), Len(content))
             IN  strip(lstrip_hint(strip(group, regex_space)),
                       {"\"", "'", "<", ">"})

\* any(keyword in content_lower for keyword in keywords)
contains_any(text, keywords) == \E k \in keywords : contains(text, k)

\* json.loads(content) succeeds, for the contents tried
json_loads(content) == content \in {<<"{","}">>, <<"[","]">>}

\* _infer_file_extension; of the Markdown markers the fence is left out, the
\* contents tried hold no backtick
infer_file_extension(content) ==
    LET content_lower == lower(content) IN
    IF contains_any(content_lower, {<<"d","e","f"," ">>, <<"i","m","p","o","r","t"," ">>, <<"f","r","o","m"," ">>, <<"c","l","a","s","s"," ">>, <<"i","f"," ","_","_","n","a","m","e","_","_">>})
    THEN <<".","p","y">>
    ELSE IF contains_any(content_lower, {<<"f","u","n","c","t","i","o","n"," ">>, <<"c","o","n","s","t"," ">>, <<"l","e","t"," ">>, <<"v","a","r"," ">>, <<"e","x","p","o","r","t"," ">>, <<"i","m","p","o","r","t"," ">>})
    THEN IF \/ contains(content_lower, <<"t","y","p","e","s","c","r","i","p","t">>)
            \/ contains(content_lower, <<"i","n","t","e","r","f","a","c","e"," ">>)
            \/ contains(SubSeq(content, 1, IF Len(content) < 100 THEN Len(content) ELSE 100),
                        <<":"," ">>)
         THEN <<".","t","s">> ELSE <<".","j","s">>
    ELSE IF \/ startswith(content_lower, <<"<","!","d","o","c","t","y","p","e">>)
            \/ contains(content_lower, <<"<","h","t","m","l">>)
            \/ contains(content_lower, <<"<","d","i","v">>)
    THEN <<".","h","t","m","l">>
    ELSE IF /\ "{" \in Range(content)
            /\ ":" \in Range(content)
            /\ \/ contains(content_lower, <<"c","o","l","o","r",":">>)
               \/ contains(content_lower, <<"m","a","r","g","i","n",":">>)
    THEN <<".","c","s","s">>
    ELSE IF /\ \/ content # <<>> /\ Head(content) = "{" /\ content[Len(content)] = "}"
               \/ content # <<>> /\ Head(content) = "[" /\ content[Len(content)] = "]"
            /\ json_loads(content)
    THEN <<".","j","s","o","n">>
    ELSE IF contains_any(content_lower, {<<"#"," ">>, <<"#","#"," ">>, <<"*","*">>, <<"*"," ">>})
    THEN <<".","m","d">>
    ELSE IF \/ startswith(content_lower, <<"#","!","/","b","i","n","/">>)
            \/ startswith(content_lower, <<"#","!","/","u","s","r","/","b","i","n","/">>)
    THEN <<".","s","h">>
    ELSE <<".","p","y">>

\* str(file_index), for the indices there can be
digits == <<"0", "1", "2", "3", "4", "5", "6", "7", "8", "9">>

\* f"generated_{file_index}{inferred_ext}"
generated_path(content, file_index) ==
    <<"g","e","n","e","r","a","t","e","d","_">> \o <<digits[file_index + 1]>>
    \o infer_file_extension(content)

\* _extract_file_path once the specifier is out of the way: the path hint of
\* the content, or the default name
path_from_content(content, file_index) ==
    IF content_hint(content) # <<>>
    THEN sanitize_file_path(content_hint(content))
    ELSE generated_path(content, file_index)

\* _extract_file_path(specifier, content, file_index)
extract_file_path_at(spec, content, file_index) ==
    IF spec # <<>> /\ marker_path(spec) # <<>>
    THEN sanitize_file_path(marker_path(spec))
    ELSE IF spec # <<>> /\ looks_like_path(spec)
    THEN sanitize_file_path(spec)
    ELSE path_from_content(content, file_index)

\* _parse_code_blocks: the loop over the matches takes the next block; a
\* block without content is skipped
parse_block ==
    /\ bnext \in 1..Len(response)
    /\ LET b == response[bnext]
       IN  files' = IF b.content = <<>> THEN files
                    ELSE Append(files,
                                [path |-> extract_file_path_at(b.specifier, b.content,
                                                               Len(files)),
                                 block |-> bnext])
    /\ bnext' = bnext + 1
    /\ UNCHANGED response

\* _parse_code_blocks returns files
parse_return ==
    /\ bnext = Len(response) + 1
    /\ bnext' = 0
    /\ UNCHANGED <<response, files>>

NextBlocks ==
    \/ parse_block /\ UNCHANGED <<Engine, block, document, classify, tracker,
                                  emission, estimate>>
    \/ parse_return /\ UNCHANGED <<Engine, block, document, classify, tracker,
                                  emission, estimate>>

\* _parse_code_blocks called with any of the responses tried
InitBlocks ==
    /\ InitEngine
    /\ NoBlock
    /\ NoDocument
    /\ NoClassify
    /\ NoTracker
    /\ NoEmission
    /\ NoEstimate
    /\ continue_on_non_critical = TRUE
    /\ plan = <<>>
    /\ response \in Responses
    /\ files = <<>>
    /\ bnext = 1

SpecBlocks == InitBlocks /\ [][NextBlocks]_vars

\* ------------------------------------------------------------ task progress
\* _calculate_task_progress over the phase history the worker builds task
\* after task. Progress values are in 1/100, task progress in 1/400.

\* entries to which phase_history is filled
MaxHistory == 6

\* the values _calculate_phase_progress can return for a phase: the fixed
\* estimates, and some of the time- and file-based ratios up to their caps
PhaseProgress(phase) ==
    IF phase = STUDY THEN {0, 30, 90}
    ELSE IF phase = IMPLEMENT THEN {0, 40, 90, 95}
    ELSE IF phase = TEST THEN {0, 50, 90}
    ELSE IF phase = UPDATE THEN {80}
    ELSE {0}

\* phases.index(phase)
phase_index(phase) == (CHOOSE i \in 1..Len(phases) : phases[i] = phase) - 1

\* _calculate_task_progress: `completed`, one for each phase that has an
\* entry with success anywhere in self.phase_history
completed_phases(h) ==
    Cardinality({i \in 1..Len(phases) :
                   \E k \in 1..Len(h) : h[k].phase = phases[i] /\ h[k].success})

\* _calculate_task_progress with self.current_phase = current and
\* _calculate_phase_progress returning phase_progress
calculate_task_progress(h, current, phase_progress) ==
    IF /\ \E i \in 1..Len(phases) : phases[i] = current
       /\ phase_index(current) >= completed_phases(h)
    THEN 100 * completed_phases(h) + phase_progress
    ELSE 100 * completed_phases(h)

\* _run_loop: self.current_task = tasks[0] and the for loop begins
estimate_start_task ==
    /\ gpc = "task"
    /\ Len(phase_history) < MaxHistory
    /\ gidx' = 1
    /\ gpc' = "enter"
    /\ UNCHANGED <<phase_history, gphase, task_progress>>

\* _execute_phase sets self.current_phase = phase and the phase function
\* logs its start: _log_status computes the task progress
estimate_enter_phase ==
    /\ gpc = "enter"
    /\ Len(phase_history) < MaxHistory
    /\ gphase' = phases[gidx]
    /\ \E pp \in PhaseProgress(phases[gidx]) :
         task_progress' = calculate_task_progress(phase_history, phases[gidx], pp)
    /\ gpc' = "run"
    /\ UNCHANGED <<phase_history, gidx>>

\* the phase ends, with success or not: _execute_phase appends its entry,
\* _run_loop logs the outcome (the task progress is computed again) and goes
\* on to the next phase, or leaves the for loop after UPDATE or by a break
estimate_end_phase ==
    /\ gpc = "run"
    /\ \E success \in BOOLEAN : \E go \in BOOLEAN :
         LET h == Append(phase_history, [phase |-> phases[gidx], success |-> success])
         IN  /\ phase_history' = h
             /\ \E pp \in PhaseProgress(gphase) :
                  task_progress' = calculate_task_progress(h, gphase, pp)
             /\ IF (success \/ go) /\ gidx < Len(phases)
                THEN gidx' = gidx + 1 /\ gpc' = "enter"
                ELSE gidx' = 0 /\ gpc' = "task"
    /\ UNCHANGED gphase

NextEstimate ==
    \/ estimate_start_task /\ UNCHANGED <<Engine, block, document, classify, tracker,
                                          emission, parsing>>
    \/ estimate_enter_phase /\ UNCHANGED <<Engine, block, document, classify, tracker,
                                           emission, parsing>>
    \/ estimate_end_phase /\ UNCHANGED <<Engine, block, document, classify, tracker,
                                         emission, parsing>>

\* an engine just constructed: the history is empty
InitEstimate ==
    /\ InitEngine
    /\ NoBlock
    /\ NoDocument
    /\ NoClassify
    /\ NoTracker
    /\ NoEmission
    /\ NoResponse
    /\ continue_on_non_critical = TRUE
    /\ plan = <<>>
    /\ phase_history = <<>>
    /\ gphase = "idle"
    /\ gidx = 0
    /\ gpc = "task"
    /\ task_progress = 0

SpecEstimate == InitEstimate /\ [][NextEstimate]_vars

\* ------------------------------------------------------------------ claims
\* the pcs at which a worker is inside _execute_phase
InPhase(w) == wpc[w] \in {"run", "retry"}

\* C1: when a phase ends with a critical error the worker sets
\* current_phase=error and is_running=false, and no worker starts a phase
\* while the loop is in that halted state (start() is what leaves it)
C1_critical_error_halts ==
    [][\A w \in Workers :
         /\ (/\ wpc[w] = "run"
             /\ wpc'[w] = "next"
             /\ wres'[w].error # 0
             /\ critical(wres'[w].error, phases[widx[w]]))
            => (current_phase' = ERROR /\ ~is_running')
         /\ (wpc[w] = "exec" /\ wpc'[w] = "run")
            => ~(current_phase = ERROR /\ ~is_running)]_vars

\* C2: at most one worker thread of the engine is alive in _run_loop
C2_single_worker ==
    Cardinality({w \in Workers : Alive(w)}) <= 1

\* C3: a file the IMPLEMENT phase writes lies under the project directory
C3_writes_under_root ==
    wrote => under_project(write_target)

\* C4: the worker's pause step after a phase sets is_paused with
\* current_phase still naming that phase, and the worker leaves the wait that
\* follows only with is_paused cleared or should_stop set
C4_pause_after_phase ==
    [][\A w \in Workers :
         /\ (wpc[w] = "pset" /\ wpc'[w] = "pwait")
            => (is_paused' /\ current_phase' = phases[widx[w]])
         /\ (wpc[w] = "pwait" /\ wpc'[w] # "pwait")
            => (~is_paused \/ should_stop)]_vars

\* resume() found a worker waiting after phase k, and neither pause() nor
\* stop() nor the start of a phase has followed
Resumed(k) == scene = phases[k]

\* C5: after resume() was called for a worker waiting after phase k (k before
\* UPDATE) is_paused is false, the worker is leaving the wait or at the head
\* of phase k+1 of the same task, and unless pause() or stop() follows it
\* eventually runs phase k+1
C5_resume_next_phase ==
    /\ [](\A k \in 1..(Len(phases) - 1) :
            Resumed(k) =>
              /\ ~is_paused
              /\ ~should_stop
              /\ \E w \in Workers :
                   /\ wtask[w] = current_task
                   /\ \/ wpc[w] = "pwait" /\ widx[w] = k
                      \/ wpc[w] \in {"for", "prewait", "exec"} /\ widx[w] = k + 1)
    /\ \A k \in 1..(Len(phases) - 1) :
         Resumed(k) ~> \/ \E w \in Workers :
                            wpc[w] = "run" /\ widx[w] = k + 1 /\ wretry[w] = 0
                       \/ is_paused
                       \/ should_stop

\* a worker has been resumed after IMPLEMENT and is about to enter TEST
C5_witness ==
    /\ Resumed(2)
    /\ \E w \in Workers : wpc[w] = "exec" /\ widx[w] = 3

\* C6: the worker sets is_paused only in phase-by-phase mode
C6_non_stop_never_pauses ==
    [][\A w \in Workers :
         (wpc[w] = "pset" /\ wpc'[w] = "pwait") => mode # NON_STOP]_vars

\* C7: after stop() found a worker blocked in a pause-wait, no worker is in or
\* about to enter a phase, and every worker thread eventually ends
C7_stop_ends_wait ==
    /\ [](scene = "stopped" =>
            \A w \in Workers :
              wpc[w] \notin {"gen", "genret", "exec", "run", "retry", "pmode",
                            "pset"})
    /\ (scene = "stopped") ~> (\A w \in Workers : ~Alive(w))

\* stop() found a worker in a pause-wait and that worker's thread has ended
C7_witness ==
    /\ scene = "stopped"
    /\ thread # 0
    /\ wpc[thread] = "dead"
    /\ cpc = "idle"

\* C8: the step that ends stop() leaves is_running false, should_stop true
\* and current_phase idle
C8_stop_postcondition ==
    [][(cpc = "stop_join" /\ cpc' = "idle")
         => (~is_running' /\ should_stop' /\ current_phase' = IDLE)]_vars

\* stop() has returned after its join timed out: the worker is still inside
\* a phase
C8_witness ==
    /\ thread # 0
    /\ cpc = "idle"
    /\ should_stop
    /\ wpc[thread] = "run"
    /\ ~is_running
    /\ current_phase = IDLE

\* C9: a phase is attempted again only after a non-critical failure with
\* retry_count < max_retries, and a failed phase is given up only on a
\* critical failure or after max_retries + 1 attempts
C9_retry_policy ==
    \A w \in Workers :
      /\ wpc[w] = "run" => wretry[w] <= max_retries
      /\ wpc[w] = "retry" =>
           /\ wretry[w] \in 1..max_retries
           /\ wres[w].error # 0
           /\ ~critical(wres[w].error, phases[widx[w]])
      /\ (wpc[w] \in {"pmode", "next"} /\ wres[w].error # 0) =>
           \/ critical(wres[w].error, phases[widx[w]])
           \/ wretry[w] = max_retries

\* a phase was given up after max_retries + 1 non-critical failures
C9_witness ==
    \E w \in Workers :
      /\ wpc[w] \in {"pmode", "next"}
      /\ wres[w].error # 0
      /\ ~critical(wres[w].error, phases[widx[w]])
      /\ wretry[w] = max_retries

\* C10: with continue_on_non_critical set, a phase given up after a
\* non-critical failure returns success with a warning and the worker goes on
\* to the pause step; after such a phase the worker leaves the task's phases
\* early only when stopped or on a later critical failure, and the phases it
\* runs are given the same task
C10_continue_with_warning ==
    \A w \in Workers :
      /\ (/\ wpc[w] \in {"pmode", "next"}
          /\ wres[w].error # 0
          /\ continue_on_non_critical
          /\ ~critical(wres[w].error, phases[widx[w]]))
         => (wpc[w] = "pmode" /\ wres[w].success /\ wres[w].warning)
      /\ (wwarn[w] /\ wpc[w] = "next" /\ widx[w] <= Len(phases))
         => \/ should_stop
            \/ wres[w].error # 0 /\ critical(wres[w].error, phases[widx[w]])
      /\ (wwarn[w] /\ InPhase(w))
         => (wtask[w] = current_task /\ wtask[w] # 0)

\* UPDATE runs in a cycle whose IMPLEMENT or TEST ended with a warning
C10_witness ==
    \E w \in Workers :
      wwarn[w] /\ wpc[w] = "run" /\ widx[w] = Len(phases) /\ ~should_stop

\* ------------------------------------------------------------ phase history
\* the _execute_phase call of worker w has just returned to _run_loop
Returned(w) ==
    wpc[w] \in {"pmode", "next"} /\ wres[w] # NoResult

\* C11: whenever _execute_phase returns a failure turned into
\* success-with-warning, the record it appended to phase_history carries the
\* warning, for a returned failure and for a raised exception alike
C11_warning_in_history ==
    \A w \in Workers :
      (Returned(w) /\ wres[w].warning)
        => /\ wlast[w].phase = phases[widx[w]]
           /\ wlast[w].error = wres[w].error
           /\ wlast[w].warning

\* the _execute_phase calls of its current cycle that worker w has seen return
\* (_run_loop: `for phase in phases`, one call per iteration)
Completed(w) ==
    IF wpc[w] \in {"for", "prewait", "exec", "run", "retry"} THEN widx[w] - 1
    ELSE IF wpc[w] \in {"pmode", "pset", "pwait"} THEN widx[w]
    ELSE IF wpc[w] = "next"
    THEN IF wres[w] # NoResult THEN widx[w] ELSE widx[w] - 1
    ELSE 0

\* C12: every _execute_phase call returns a result to the loop (an exception
\* of the phase function becomes a result carrying its error) and appends
\* exactly one record to phase_history, whatever the number of retries and
\* whether the attempts returned a failure or raised: the records of a cycle
\* are as many as its calls that have returned, and the record of a call is
\* of the call's phase and carries the call's error
C12_one_record_per_execution ==
    \A w \in Workers :
      /\ wrecs[w] = Completed(w)
      /\ Returned(w)
           => /\ wlast[w].phase = phases[widx[w]]
              /\ wlast[w].error = wres[w].error
              /\ wres[w].success \/ wres[w].error # 0
      /\ wpc[w] \in {"run", "retry"} => wlast[w] = NoEntry

\* a call has returned after max_retries retries, the last attempt having
\* raised, with one record appended
C12_witness ==
    \E w \in Workers :
      /\ Returned(w)
      /\ phases[widx[w]] = UPDATE
      /\ wres[w].error # 0
      /\ wretry[w] = max_retries
      /\ wrecs[w] = Len(phases)

\* the _execute_phase call of worker w has just returned after its phase
\* function raised: of the four phase functions only _phase_update lets an
\* exception out, the others catch theirs and return a failure
Raised(w) ==
    Returned(w) /\ phases[widx[w]] = UPDATE /\ wres[w].error # 0

\* C13: when the phase function raises, _execute_phase returns success=false
\* with an error and phase_history holds exactly one record of that execution
C13_exception_returns_failure ==
    \A w \in Workers :
      Raised(w) => /\ ~wres[w].success
                   /\ wres[w].error # 0
                   /\ wrecs[w] = Completed(w)
                   /\ wlast[w].phase = UPDATE

\* worker w is inside `for phase in phases` or has just left it
InCycle(w) ==
    wpc[w] \in {"for", "prewait", "exec", "run", "retry", "pmode", "pset",
                "pwait", "next"}

LinearTransitions ==
    {<<IDLE, STUDY>>, <<STUDY, IMPLEMENT>>, <<IMPLEMENT, TEST>>, <<TEST, UPDATE>>,
     <<UPDATE, IDLE>>}

\* C15: current_phase changes only along idle -> study -> implement -> test
\* -> update -> idle, to complete when no incomplete task remains, or to
\* error on a failure that was not recovered (the return to idle is taken
\* here from any phase, as stop() makes it, so that the steps found are
\* changes between the working phases)
C15_linear_transitions ==
    [][current_phase' # current_phase
         => \/ <<current_phase, current_phase'>> \in LinearTransitions
            \/ current_phase' = IDLE
            \/ current_phase' = COMPLETE /\ read_fix_plan = <<>>
            \/ current_phase' = ERROR
               /\ \E w \in Workers : wres'[w].error # 0 /\ ~wres'[w].success]_vars

\* ---------------------------------------------------------- task generation
\* C16: when no incomplete task was read and the generation gives none (no
\* description, the collaborator unavailable and therefore not asked, the
\* collaborator raising, or a response without a task line), the worker
\* sets current_phase = complete and is_running = false and its thread ends
C16_no_tasks_terminates ==
    /\ [](\A w \in Workers :
            wpc[w] = "genret"
              => /\ read_fix_plan = <<>>
                 /\ wgen[w].case # "tasks" => wgen[w].tasks = 0
                 /\ wgen[w].case \in {"no_description", "unavailable"}
                      => ~wgen[w].generate_called)
    /\ [][\A w \in Workers :
            (wpc[w] = "genret" /\ wgen[w].tasks = 0 /\ wpc'[w] # "genret")
              => /\ current_phase' = COMPLETE
                 /\ ~is_running'
                 /\ wpc'[w] = "dead"]_vars
    /\ \A w \in Workers :
         (wpc[w] = "genret" /\ wgen[w].tasks = 0) ~> (wpc[w] = "dead")

\* a worker has ended with complete after the collaborator was found
\* unavailable
C16_witness ==
    \E w \in Workers :
      /\ wpc[w] = "dead"
      /\ wgen[w].case = "unavailable"
      /\ current_phase = COMPLETE
      /\ ~is_running

\* -------------------------------------------------------------- task order
\* task i is the first incomplete task line of the task list; plan lists the
\* task lines top to bottom, which for a document with its sections in the
\* order High, Medium, Low is the order of priority
FirstIncomplete(i) ==
    /\ i \in 1..Len(plan)
    /\ plan[i]
    /\ \A j \in 1..(i - 1) : ~plan[j]

FirstLine(d, task) ==
    IF \E i \in 1..Len(d) : d[i] = IncompleteBox \o task
    THEN CHOOSE i \in 1..Len(d) :
           /\ d[i] = IncompleteBox \o task
           /\ \A j \in 1..(i - 1) : d[j] # IncompleteBox \o task
    ELSE 0

\* C17: mark_task_complete(t) leaves the document unchanged and returns
\* false when no line is `- [ ] t`; otherwise it changes the first line
\* `- [ ] t` to `- [x] t`, returns true and leaves every other line as it
\* was, lines whose text only begins with t included
C17_mark_complete_exact ==
    tpc = "marked"
      => LET i == FirstLine(doc0, targ[1])
         IN  IF ~doc_exists \/ i = 0
             THEN doc = doc0 /\ ~tret
             ELSE doc = [doc0 EXCEPT ![i] = CompleteBox \o targ[1]] /\ tret

\* line i of d lies in a priority section: the last header line above it is
\* the High, Medium or Low Priority header
InPrioritySection(d, i) ==
    \E h \in 1..(i - 1) :
      /\ d[h] \in {HighHeader, MediumHeader, LowHeader}
      /\ \A k \in (h + 1)..(i - 1) : ~startswith(d[k], <<"#", "#">>)

\* line i of d is an incomplete checkbox line `- [ ] text`
IncompleteLine(d, i) ==
    startswith(d[i], IncompleteBox) /\ Len(d[i]) > Len(IncompleteBox)

\* the texts of the incomplete checkbox lines of d's priority sections, top
\* to bottom
IncompleteTasks(d) ==
    LET at == SelectSeq([i \in 1..Len(d) |-> i],
                        LAMBDA i : IncompleteLine(d, i) /\ InPrioritySection(d, i))
    IN  [k \in 1..Len(at) |-> SubSeq(d[at[k]], Len(IncompleteBox) + 1, Len(d[at[k]]))]

\* C18: read_tasks returns the texts of exactly the incomplete checkbox lines
\* that lie in the High, Medium and Low priority sections, top to bottom,
\* without the `- [x]` lines and without the checkbox lines outside those
\* sections, and the empty sequence when the file does not exist
C18_read_incomplete_tasks ==
    tpc \in {"read", "added_read"}
      => tread = IF doc_exists THEN IncompleteTasks(doc) ELSE <<>>

\* read_tasks has returned one task of a document that has an incomplete
\* line outside the priority sections and a complete line inside one
C18_witness ==
    /\ tpc = "read"
    /\ Len(tread) = 1
    /\ \E i \in 1..Len(doc) : IncompleteLine(doc, i) /\ ~InPrioritySection(doc, i)
    /\ \E i \in 1..Len(doc) : startswith(doc[i], CompleteBox) /\ InPrioritySection(doc, i)

\* d is a High Priority header followed by an optional description line and
\* zero or more task lines
HighPrioritySection(d) ==
    /\ d # <<>>
    /\ d[1] = HighHeader
    /\ \A i \in 2..Len(d) :
         \/ i = 2 /\ d[i] = Description
         \/ startswith(d[i], IncompleteBox)
         \/ startswith(d[i], CompleteBox)

\* C20: on a document made of a High Priority header, an optional description
\* line and zero or more tasks, add_tasks_to_fix_plan([t1, t2]) followed by
\* read_tasks returns t1 and t2 in this order together with the incomplete
\* tasks the document had, in the order they had
C20_append_then_read ==
    (tpc = "added_read" /\ targ = << <<"b">>, <<"c">> >> /\ HighPrioritySection(doc0))
      => /\ SelectSeq(tread, LAMBDA t : t \in {<<"b">>, <<"c">>}) = targ
         /\ SelectSeq(tread, LAMBDA t : t \notin {<<"b">>, <<"c">>})
              = IncompleteTasks(doc0)

C22_critical_iff_keyword ==
    kpc = "done"
      => /\ kres.critical <=> kkeyword
         /\ contains(lower(ktext), lower(MsgPermission))
              => (kres.critical /\ ~kres.retry)
         /\ kres.retry <=> (~kkeyword /\ kretry < max_retries)

\* an upper-case PERMISSION DENIED inside a longer text was classified
\* critical for the UPDATE phase
C22_witness ==
    /\ kpc = "done"
    /\ kphase = UPDATE
    /\ kres.critical
    /\ contains(ktext, upper(MsgPermission))
    /\ Len(ktext) > Len(MsgPermission)

\* C23: before the retry that follows a failure at retry count k the engine
\* waits retry_delay * (k + 1) seconds (the retry being made at count k + 1)
C23_linear_backoff ==
    \A w \in Workers :
      wpc[w] = "retry" => wsleep[w] = retry_delay * wretry[w]

\* C28: start() called while is_running is true raises the "already running"
\* error instead of going on to its assignments, and neither the call nor the
\* raise changes mode, is_paused, should_stop, current_phase, the thread
\* attribute or the position of any worker thread.
C28_start_while_running ==
    [][ /\ (cpc = "idle" /\ is_running) => cpc' # "start_set"
        /\ (cpc = "idle" /\ cpc' = "start_raised")
             => /\ is_running
                /\ UNCHANGED <<mode, is_running, is_paused, should_stop,
                               current_phase, thread, wpc>>
        /\ (cpc = "start_raised" /\ cpc' = "idle")
             => UNCHANGED <<mode, is_running, is_paused, should_stop,
                            current_phase, thread, wpc>> ]_vars

\* start() has raised while a worker thread is executing a phase
C28_witness ==
    /\ cpc = "start_raised"
    /\ is_running
    /\ thread # 0
    /\ \E w \in Workers : wpc[w] = "exec"

\* C27: when start() returns, the whole loop state is that of a fresh run:
\* is_running is true, is_paused and should_stop are false, current_phase is
\* idle, mode is the requested mode, current_task is unset and phase_history
\* holds no record.
C27_start_resets_state ==
    [][ (cpc = "start_thread" /\ cpc' = "idle")
          => /\ is_running'
             /\ ~is_paused'
             /\ ~should_stop'
             /\ current_phase' = IDLE
             /\ mode' = carg
             /\ current_task' = 0
             /\ ~recorded' ]_vars

\* C29: a file created under the project root after start_tracking() is
\* reported under `created` by the next get_changes() and by the worker's next
\* update_snapshot(), and that report has neither this file nor any file that
\* has not been touched since start_tracking() under `modified` or `deleted`,
\* however recently a snapshot or the changes were last computed.
C29_created_reported ==
    [][ (call_get_changes \/ update_snapshot)
          => \A p \in Paths :
               life[p] \in {"made", "remade"}
                 => /\ p \in last_changes'.created
                    /\ p \notin last_changes'.modified \cup last_changes'.deleted
                    /\ \A q \in Paths :
                         life[q] = "old"
                           => q \notin last_changes'.modified
                                         \cup last_changes'.deleted ]_vars

\* C30: once update_snapshot() has returned a created file, a later
\* get_changes() does not report the file under `created`; and if the file had
\* been rewritten before that update_snapshot(), the later get_changes()
\* reports it under `modified`.  Stated for the calls of get_changes() that
\* come after the check interval and the life of the snapshot cache have
\* passed, so that the answer is computed from the directory as it is.
C30_folded_not_created ==
    [][ (call_get_changes /\ check_age = check_interval /\ cache_age = cache_ttl)
          => \A p \in Paths :
               /\ life[p] \in {"folded", "refolded"}
                    => p \notin last_changes'.created
               /\ life[p] = "refolded"
                    => p \in last_changes'.modified ]_vars

\* C24: an exception raised by the status callback never leaves _emit_status:
\* the thread goes on after _log_status as it does when the callback returns,
\* and the status entry of that event is in status_log.
C24_callback_exception_caught ==
    \A t \in Threads :
      /\ epc[t] # "propagated"
      /\ (epc[t] = "after" /\ eraised[t]) => status_log > elen[t]
      /\ epc[t] \in {"emit", "callback", "after"} => status_log > elen[t]

\* the worker's callback has raised and the worker is back in its operation
\* while the host's callback raised as well
C24_witness ==
    /\ epc["worker"] = "after"
    /\ eraised["worker"]
    /\ eraised["host"]
    /\ status_log = 2

\* C25: the status callback runs on the worker thread only, never on the
\* thread that calls a control operation, and never in two threads at once.
C25_callback_on_worker_only ==
    /\ \A t \in Threads : epc[t] = "callback" => t = "worker"
    /\ Cardinality({t \in Threads : epc[t] = "callback"}) <= 1

\* C26: get_status() does not hold the engine lock while it computes the
\* progress figures or while the file tracker lists the directory, so the
\* lock is there for a worker about to enter a `with self.lock:` block.
C26_get_status_lock_free_io ==
    epc["host"] \in {"progress", "files"} => lock # "host"

\* C31: a file that was there when tracking started and has been rewritten
\* since, so that its modification time is greater than any time recorded for
\* it, is reported under `modified` by get_changes().  Stated for the calls
\* that come after the check interval and the life of the snapshot cache have
\* passed.
C31_rewritten_is_modified ==
    [][ (call_get_changes /\ check_age = check_interval /\ cache_age = cache_ttl)
          => \A p \in Paths :
               (p \in initial_snapshot /\ life[p] = "changed" /\ disk[p] # 0)
                 => p \in last_changes'.modified ]_vars

\* what update_snapshot() returns 0.1 s from now, if nothing is called before
update_returns_direct ==
    get_changes_at(snapshot_cache, aged(cache_age, cache_ttl),
                   aged(check_age, check_interval), last_changes).changes

\* what update_snapshot() returns 0.1 s from now, if get_changes() is called
\* now
update_returns_after_diff ==
    LET g == get_changes(snapshot_cache, cache_age)
    IN  get_changes_at(g.cache, aged(g.age, cache_ttl),
                       aged(g.check, check_interval), g.last).changes

\* C32: get_changes() leaves initial_snapshot, current_snapshot and
\* tracked_files as they are, and calling it does not change what an
\* update_snapshot() that follows returns for the same directory contents.
C32_diff_keeps_state ==
    /\ [][ call_get_changes
             => UNCHANGED <<initial_snapshot, current_snapshot,
                            tracked_files>> ]_vars
    /\ [](tracking => update_returns_after_diff = update_returns_direct)

\* the number of blocks with content before block n of the response
BlocksBefore(n) == Cardinality({k \in 1..(n - 1) : response[k].content # <<>>})

C34_update_removes_task ==
    (/\ tpc = "marked"
     /\ read_tasks(doc_exists, doc0) # <<>>
     /\ targ[1] = Head(read_tasks(doc_exists, doc0)))
      => read_tasks(doc_exists, doc) = Tail(read_tasks(doc_exists, doc0))

\* worker w has left `for phase in phases` by the break taken when a phase
\* failed non-critically and continue_on_non_critical is off
BrokeNonCritical(w) ==
    /\ wpc[w] = "next"
    /\ ~continue_on_non_critical
    /\ ~wres[w].success /\ ~wres[w].warning
    /\ wres[w].error # 0
    /\ ~critical(wres[w].error, phases[widx[w]])

\* C35: with continue_on_non_critical off, once a phase has failed
\* non-critically after its retries the worker runs no phase any more,
\* neither a later phase of the task nor a phase of a new cycle.
C35_noncritical_break_stops ==
    \A w \in Workers : [](BrokeNonCritical(w) => [](wpc[w] \notin {"exec", "run"}))

\* worker w is inside _execute_phase, or has passed the last check of
\* should_stop before the call
InExecutePhase(w) == wpc[w] \in {"exec", "run", "retry"}

\* C36 (as stated): while should_stop is set the worker starts no attempt of
\* a phase: the retry wrapper makes no further attempt of a failing phase,
\* and the loop enters no phase.
C36_no_attempt_after_stop ==
    [][ \A w \in Workers :
          should_stop =>
            /\ (wpc[w] = "retry" => wpc'[w] # "run")
            /\ (~InExecutePhase(w) => wpc'[w] \notin {"exec", "run", "retry"}) ]_vars

\* C36 (amended): while should_stop is set the worker passes no phase
\* boundary: from the loop (task selection, head of the for body, pause
\* waits) it does not enter _execute_phase. The retries of a phase already
\* entered are not covered.
C36_no_new_phase_after_stop ==
    [][ \A w \in Workers :
          (should_stop /\ ~InExecutePhase(w))
            => wpc'[w] \notin {"exec", "run", "retry"} ]_vars

\* should_stop is set and a worker has left the for loop at the head of a
\* phase after STUDY, without running it
C36_witness ==
    \E w \in Workers :
      /\ should_stop /\ wpc[w] = "next"
      /\ widx[w] \in 2..Len(phases) /\ wres[w] = NoResult

\* C37: stop() clears is_paused for good: while should_stop is set, from
\* stop() until the next start(), no step of the worker makes is_paused
\* true again; only a pause() call of the host does.
C37_stop_clears_pause ==
    [][ (should_stop /\ ~is_paused /\ is_paused') => pause ]_vars

\* C38: while the loop is running with is_paused set and should_stop not
\* set, in either mode, the worker enters no phase (the STUDY phase of a
\* task included): it waits until is_paused is cleared.
C38_paused_starts_no_phase ==
    [][ \A w \in Workers :
          (is_running /\ is_paused /\ ~should_stop /\ wpc[w] # "exec")
            => wpc'[w] # "exec" ]_vars

\* the positions of a thread inside a `with self.lock:` block
Holding == {"locked", "progress", "files", "polled"}

\* the step by which thread t goes on inside, or leaves, the
\* `with self.lock:` block it is in
HolderStep(t) ==
    \/ lock_release(t)
    \/ callback_get_status_return(t)
    \/ (t = "host" /\ (get_status_progress \/ get_status_return))

\* C39: the engine lock is held exactly by a thread inside one of its
\* `with self.lock:` blocks, also when a status callback calls get_status():
\* no thread asks for the lock it holds, and the holder can always go on to
\* the end of its block without another thread, so no interleaving of the
\* control operations, get_status() and the worker deadlocks.
C39_no_deadlock ==
    /\ \A t \in Threads : (lock = t) <=> (epc[t] \in Holding)
    /\ \A t \in Threads : lock = t => ENABLED HolderStep(t)
    /\ lock = "free" => \A t \in Threads :
          epc[t] = "callback" => ENABLED callback_get_status(t)

\* a status callback running on one thread is inside get_status() while the
\* other thread is at a point where it asks for the lock
C39_witness ==
    \E t \in Threads : \E u \in Threads \ {t} :
      /\ epc[t] = "polled" /\ lock = t
      /\ epc[u] \in {"idle", "callback"}

\* C40: the task progress computed when the worker has started the STUDY
\* phase of a task counts no completed phase, so it is below 1/4, whatever
\* entries earlier tasks left in the phase history; and the task progress
\* never exceeds 1.
C40_task_progress_of_current_task ==
    /\ (gpc = "run" /\ gphase = STUDY) => task_progress < 100
    /\ task_progress <= 400

=============================================================================
